---- MODULE Spec2Model ----
(***************************************************************************)
(* Model of the smart door lock server (face_recognition_system_optimized  *)
(* .py): the DoorLockController with its threading.Timer relock threads,   *)
(* the asyncio event loop tasks that call it (the websocket request        *)
(* handlers and the camera stream's process_frame), and broadcast_event.   *)
(*                                                                         *)
(* Threads: the event loop thread runs one task at a time, and a task      *)
(* gives up the loop only at an await.  A call of unlock_door/force_lock   *)
(* is synchronous, so no other task runs during it; the Timer threads do   *)
(* run during it, statement by statement.                                  *)
(***************************************************************************)
EXTENDS Integers, Sequences, FiniteSets, TLC

\* ------------------------------------------------------------------ bounds
MaxTimers == 2      \* threading.Timer objects created in one run
MaxTime == 2        \* horizon of the clock, in seconds
MaxClients == 2     \* websocket connections
MaxFaces == 2       \* faces located in one frame
MaxFrames == 2      \* frames the stream loop handles in one run
MaxStarts == 2      \* start_camera_stream tasks alive at one time
MaxHandles == 3     \* cv2.VideoCapture objects constructed in one run

\* --------------------------------------------------------------- constants
Clients == 1..MaxClients            \* connection c is served by handler task c
\* the start_camera_stream tasks that add_client creates
Starts == (MaxClients + 1)..(MaxClients + MaxStarts)
Stream == MaxClients + 1            \* the first start_camera_stream task
Tasks == Starts \cup Clients
HandleIds == 1..MaxHandles
TimerIds == 1..MaxTimers
\* the 'duration' of an unlock_door message: absent (None) or a number of seconds
DurationArgs == {<<>>, <<1>>}
None == 0                           \* self.unlock_timer = None

VARIABLES
    \* DoorLockController
    is_unlocked,      \* self.is_unlocked
    relay,            \* level of GPIO pin relay_pin: "LOW" | "HIGH"
    unlock_timer,     \* self.unlock_timer: None or a timer id
    lock_duration,    \* self.lock_duration
    timers,           \* the Timer threads: id -> [st, finished, deadline]
    call,             \* the unlock_door/force_lock call running on the loop thread
    episode,          \* the last door request and the GPIO.output calls from its own on
    \* environment
    now,              \* the clock
    gpio_faulty,      \* whether GPIO.output can raise
    \* FaceRecognitionSystem
    clients,          \* self.clients
    conn,             \* state of each websocket: "none" | "open" | "closed"
    hpc,              \* position of handle_websocket(c)
    hreq,             \* the message handle_message(c) is working on
    sent_to,          \* per task: the clients its current broadcast_event sends to
    pending,          \* per task: sends of its broadcast_event not yet completed
    ready,            \* the sends handed to gather that have not run yet, oldest first
    got,              \* per task: deliveries of its current event, per client
    failed,           \* per task: clients whose send raised in its current broadcast
    auto_unlock,      \* self.auto_unlock
    unlock_confidence,    \* self.unlock_confidence, in percent
    recognition_interval, \* self.recognition_interval
    known_face_names, \* self.known_face_names
    known_face_encodings, \* self.known_face_encodings: the person each encoding shows
    authorized_users, \* self.authorized_users
    jpeg_quality,     \* self.jpeg_quality
    adaptive_quality, \* self.adaptive_quality
    load,             \* psutil: the cpu and memory percentages last sampled
    quality,          \* the quality adjust_quality_based_on_load returned last
    max_width,        \* self.max_width
    captured,         \* the frame camera.read returned: its size, where the face is
    location,         \* process_frame's results: the 'location' of the detection
    image,            \* the image of the 'frame' event: its size, where the box is drawn
    frame_count,      \* self.frame_count
    running,          \* self.running
    camera,           \* self.camera: None or a VideoCapture handle
    handles,          \* the VideoCapture objects: id -> [st, by, releases]
    \* locals of each start_camera_stream task and of its process_frame call
    spc,              \* position of the task
    frame,            \* index of the frame the task has read and is handling
    perform_recognition,  \* process_frame's perform_recognition
    results,          \* process_frame's results: the frame they belong to, their number
    faces_left,       \* faces of the current frame the for loop has not handled yet
    cur,              \* the detection the for loop of process_frame is handling
    payload,          \* data of the 'frame' event the task is broadcasting
    \* history
    halted,           \* per task: the last client detached while the task was in its loop
    start_owed        \* clients went from empty to non-empty and no task was created since

doorVars == <<is_unlocked, relay, unlock_timer, lock_duration>>
envVars == <<now, gpio_faulty>>
hubVars == <<clients, conn, sent_to, pending, ready, got, failed>>
handlerVars == <<hpc, hreq>>
configVars == <<auto_unlock, unlock_confidence, recognition_interval>>
dataVars == <<known_face_names, known_face_encodings, authorized_users>>
profileVars == <<jpeg_quality, adaptive_quality, load, quality>>
imageVars == <<max_width, captured, location, image>>
taskVars == <<spc, frame, perform_recognition, results, faces_left, cur, payload>>
cameraVars == <<running, camera, handles>>
streamVars == <<taskVars, frame_count, cameraVars, halted, start_owed>>
\* everything the event loop's tasks own
loopVars ==
    <<hubVars, handlerVars, configVars, dataVars, imageVars, profileVars, streamVars>>
vars == <<doorVars, timers, call, episode, envVars, loopVars>>

\* ------------------------------------------------------------ threading.Timer
NoTimer == [st |-> "unborn", finished |-> FALSE, deadline |-> 0]

\* a Timer whose thread has ended: run() has set finished
EndedTimer == [st |-> "done", finished |-> TRUE, deadline |-> 0]

\* the relock timer is armed: its thread waits and nobody has cancelled it
armed(i) == timers[i].st = "waiting" /\ ~timers[i].finished

\* one more GPIO.output(relay_pin, level) has been carried out
Wrote(level) == [episode EXCEPT ![level] = @ + 1]

\* Thread.is_alive(): started and run() not yet returned
is_alive(i) == timers[i].st \in {"waiting", "callback", "flag"}

\* the Timer objects not yet constructed
FreeTimers == {i \in TimerIds : timers[i].st = "unborn"}

\* Timer.cancel(): self.finished.set()
cancel(i) == [timers EXCEPT ![i].finished = TRUE]

\* Timer.run(): finished.wait(interval) timed out and finished is not set:
\* the thread enters self.function, i.e. _lock_door
TimerExpire(i) ==
    /\ timers[i].st = "waiting"
    /\ ~timers[i].finished
    /\ now >= timers[i].deadline
    /\ timers' = [timers EXCEPT ![i].st = "callback"]
    /\ UNCHANGED <<doorVars, call, episode, envVars, loopVars>>

\* Timer.run(): finished.wait returned because cancel() set the event:
\* the function is skipped and the thread ends
TimerCancelledExit(i) ==
    /\ timers[i].st = "waiting"
    /\ timers[i].finished
    /\ timers' = [timers EXCEPT ![i] = EndedTimer]
    /\ UNCHANGED <<doorVars, call, episode, envVars, loopVars>>

\* the relay pin is set up as an output: DoorLockController.cleanup has not
\* reached GPIO.cleanup(), after which GPIO.output raises RuntimeError
GpioUp == ~(call.fn = "cleanup" /\ call.pc = "done" /\ call.result)

\* _lock_door, first statement: GPIO.output(relay_pin, GPIO.LOW); when it
\* raises, the except branch prints, run() sets finished and the thread ends
LockDoorGpio(i) ==
    /\ timers[i].st = "callback"
    /\ \E ok \in (IF GpioUp THEN {TRUE} ELSE {})
                    \cup (IF gpio_faulty \/ ~GpioUp THEN {FALSE} ELSE {}) :
          IF ok
          THEN /\ relay' = "LOW"
               /\ episode' = Wrote("LOW")
               /\ timers' = [timers EXCEPT ![i].st = "flag"]
          ELSE /\ relay' = relay
               /\ episode' = episode
               /\ timers' = [timers EXCEPT ![i] = EndedTimer]
    /\ UNCHANGED <<is_unlocked, unlock_timer, lock_duration, call, envVars, loopVars>>

\* _lock_door, second statement: self.is_unlocked = False; then run() sets
\* finished and the thread ends
LockDoorFlag(i) ==
    /\ timers[i].st = "flag"
    /\ is_unlocked' = FALSE
    /\ timers' = [timers EXCEPT ![i] = EndedTimer]
    /\ UNCHANGED <<relay, unlock_timer, lock_duration, call, episode, envVars, loopVars>>

\* ------------------------------------------------------- DoorLockController
NoCall == [fn |-> "none", pc |-> "none", task |-> Stream, duration |-> 0,
           result |-> FALSE, was_unlocked |-> FALSE, was_armed |-> None]

\* no door request has been made yet
NoEpisode == [fn |-> "none", ok |-> FALSE, HIGH |-> 0, LOW |-> 0]

\* a door request begins, or makes its own GPIO write: the count of GPIO
\* writes starts again
NewEpisode(fn) == [fn |-> fn, ok |-> FALSE, HIGH |-> 0, LOW |-> 0]

\* the relock timer pending at the entry of a call (None when there is none)
PendingTimer == IF unlock_timer # None /\ armed(unlock_timer) THEN unlock_timer ELSE None

\* the loop thread is free: no synchronous door call is running on it, and
\* no stream task is on its way from opening the camera to its while loop
LoopFree == call.fn = "none" /\ \A s \in Starts : spc[s] # "top"

\* entry of unlock_door(duration): a None duration becomes self.lock_duration
EnterUnlock(t, d) ==
    [fn |-> "unlock_door", pc |-> "cancel", task |-> t,
     duration |-> IF d = <<>> THEN lock_duration ELSE d[1], result |-> FALSE,
     was_unlocked |-> is_unlocked, was_armed |-> PendingTimer]

\* entry of force_lock()
EnterForceLock(t) ==
    [fn |-> "force_lock", pc |-> "cancel", task |-> t, duration |-> 0,
     result |-> FALSE, was_unlocked |-> is_unlocked, was_armed |-> PendingTimer]

\* unlock_door / force_lock: if self.unlock_timer and self.unlock_timer.is_alive():
\*     self.unlock_timer.cancel()
DoorCancel ==
    /\ call.fn \in {"unlock_door", "force_lock"}
    /\ call.pc = "cancel"
    /\ timers' = IF unlock_timer # None /\ is_alive(unlock_timer)
                 THEN cancel(unlock_timer)
                 ELSE timers
    /\ call' = [call EXCEPT !.pc = "gpio"]
    /\ UNCHANGED <<doorVars, episode, envVars, loopVars>>

\* the level each operation writes to the relay pin
LevelOf(fn) == IF fn = "unlock_door" THEN "HIGH" ELSE "LOW"

\* unlock_door: GPIO.output(relay_pin, GPIO.HIGH); force_lock: GPIO.output(
\* relay_pin, GPIO.LOW).  When it raises, the except branch returns False.
DoorGpio ==
    /\ call.fn \in {"unlock_door", "force_lock"}
    /\ call.pc = "gpio"
    /\ \E ok \in {TRUE} \cup (IF gpio_faulty THEN {FALSE} ELSE {}) :
          IF ok
          THEN /\ relay' = LevelOf(call.fn)
               /\ episode' = [NewEpisode(call.fn) EXCEPT ![LevelOf(call.fn)] = 1]
               /\ call' = [call EXCEPT !.pc = "flag"]
          ELSE /\ relay' = relay
               /\ episode' = episode
               /\ call' = [call EXCEPT !.pc = "return", !.result = FALSE]
    /\ UNCHANGED <<is_unlocked, unlock_timer, lock_duration, timers, envVars, loopVars>>

\* unlock_door: self.is_unlocked = True
UnlockFlag ==
    /\ call.fn = "unlock_door"
    /\ call.pc = "flag"
    /\ is_unlocked' = TRUE
    /\ call' = [call EXCEPT !.pc = "timer"]
    /\ UNCHANGED <<relay, unlock_timer, lock_duration, timers, episode, envVars, loopVars>>

\* the deadline of a Timer started now with the given interval
Deadline(interval) == now + interval

\* unlock_door: self.unlock_timer = threading.Timer(duration, self._lock_door);
\* self.unlock_timer.start(); return True
UnlockTimer ==
    /\ call.fn = "unlock_door"
    /\ call.pc = "timer"
    /\ \E i \in FreeTimers :
          /\ \A j \in FreeTimers : i <= j
          /\ unlock_timer' = i
          /\ timers' = [timers EXCEPT ![i] =
                 [st |-> "waiting", finished |-> FALSE,
                  deadline |-> Deadline(call.duration)]]
    /\ call' = [call EXCEPT !.pc = "return", !.result = TRUE]
    /\ episode' = [episode EXCEPT !.ok = TRUE]
    /\ UNCHANGED <<is_unlocked, relay, lock_duration, envVars, loopVars>>

\* force_lock: self.is_unlocked = False; return True
ForceLockFlag ==
    /\ call.fn = "force_lock"
    /\ call.pc = "flag"
    /\ is_unlocked' = FALSE
    /\ call' = [call EXCEPT !.pc = "return", !.result = TRUE]
    /\ episode' = [episode EXCEPT !.ok = TRUE]
    /\ UNCHANGED <<relay, unlock_timer, lock_duration, timers, envVars, loopVars>>

\* entry of DoorLockController.cleanup()
EnterCleanup ==
    [fn |-> "cleanup", pc |-> "cancel", task |-> Stream, duration |-> 0,
     result |-> FALSE, was_unlocked |-> is_unlocked, was_armed |-> PendingTimer]

\* cleanup: if self.unlock_timer and self.unlock_timer.is_alive():
\*     self.unlock_timer.cancel()
CleanupCancel ==
    /\ call.fn = "cleanup"
    /\ call.pc = "cancel"
    /\ timers' = IF unlock_timer # None /\ is_alive(unlock_timer)
                 THEN cancel(unlock_timer)
                 ELSE timers
    /\ call' = [call EXCEPT !.pc = "gpio"]
    /\ UNCHANGED <<doorVars, episode, envVars, loopVars>>

\* cleanup: GPIO.output(relay_pin, GPIO.LOW); GPIO.cleanup().  When the write
\* raises, the except branch prints and GPIO.cleanup() is skipped.  The
\* result of the call records whether GPIO.cleanup() ran; self.is_unlocked is
\* not assigned on either path
CleanupGpio ==
    /\ call.fn = "cleanup"
    /\ call.pc = "gpio"
    /\ \E ok \in {TRUE} \cup (IF gpio_faulty THEN {FALSE} ELSE {}) :
          IF ok
          THEN /\ relay' = "LOW"
               /\ episode' = [NewEpisode("cleanup") EXCEPT !["LOW"] = 1]
               /\ call' = [call EXCEPT !.pc = "done", !.result = TRUE]
          ELSE /\ relay' = relay
               /\ episode' = episode
               /\ call' = [call EXCEPT !.pc = "done", !.result = FALSE]
    /\ UNCHANGED <<is_unlocked, unlock_timer, lock_duration, timers, envVars, loopVars>>

\* ------------------------------------------------------------------ clock
Tick ==
    /\ now < MaxTime
    /\ now' = now + 1
    /\ UNCHANGED <<doorVars, timers, call, episode, gpio_faulty, loopVars>>

\* -------------------------------------------------------------- broadcast_event
NoDeliveries == [c \in Clients |-> 0]

\* broadcast_event: [client.send(message) for client in self.clients] is built
\* before the first send runs: the sends go to the clients attached at the call
Recipients == clients

\* a gather that gives up its remaining sends when one send raises
AfterSendAborting(p, c, ok) == IF ok THEN p \ {c} ELSE {}

\* one send of a gather has completed for client c: the others stay pending
AfterSend(p, c, ok) == p \ {c}

\* an event loop that runs its ready tasks in any order
RunnableInAnyOrder(q) == DOMAIN q

\* the positions of the loop's queue of new send tasks that can run next: the
\* event loop runs its ready tasks first in, first out
Runnable(q) == IF q = <<>> THEN {} ELSE {1}

\* the queue q without its i-th entry
Without(q, i) == [j \in 1..(Len(q) - 1) |-> IF j < i THEN q[j] ELSE q[j + 1]]

\* gather wraps the sends of task t in tasks, one per client of S in the
\* order of the list comprehension (ascending here)
SendTasks(t, S) ==
    SelectSeq([c \in 1..MaxClients |-> <<t, c>>], LAMBDA e : e[2] \in S)

\* asyncio.gather(*sends, return_exceptions=True): the send of task t's event
\* to client c runs: websocket.send writes the message to the connection and
\* waits for the write buffer to drain; on a closed connection it raises, and
\* gather keeps the exception as that send's result
SendWrite(t, c) ==
    /\ LoopFree
    /\ \E i \in Runnable(ready) :
          /\ ready[i] = <<t, c>>
          /\ ready' = Without(ready, i)
    /\ IF conn[c] \in {"open", "stalled"}
       THEN /\ got' = IF conn[c] = "open" THEN [got EXCEPT ![t][c] = @ + 1] ELSE got
            /\ UNCHANGED <<pending, failed>>
       ELSE /\ pending' = [pending EXCEPT ![t] = AfterSend(pending[t], c, FALSE)]
            /\ failed' = [failed EXCEPT ![t] = @ \cup {c}]
            /\ got' = got
    /\ UNCHANGED <<clients, conn, sent_to, handlerVars, configVars, dataVars, imageVars, profileVars, streamVars>>
    /\ UNCHANGED <<doorVars, timers, call, episode, envVars>>

\* the send of task t's event to client c has written its message
Written(t, c) == \A i \in DOMAIN ready : ready[i] # <<t, c>>

\* the send of task t's event to client c completes: the write buffer has
\* drained.  No timeout bounds the send: while the peer does not read, the
\* send stays pending
SendComplete(t, c) ==
    /\ LoopFree
    /\ c \in pending[t]
    /\ Written(t, c)
    /\ conn[c] # "stalled"
    /\ pending' = [pending EXCEPT ![t] = AfterSend(pending[t], c, TRUE)]
    /\ UNCHANGED <<clients, conn, sent_to, ready, got, failed>>
    /\ UNCHANGED <<handlerVars, configVars, dataVars, imageVars, profileVars, streamVars>>
    /\ UNCHANGED <<doorVars, timers, call, episode, envVars>>

\* the await of broadcast_event returns once every send has completed
GatherDone(t) == pending[t] = {}

\* task t calls broadcast_event: one send per recipient is handed to gather
Broadcast(t) ==
    /\ sent_to' = [sent_to EXCEPT ![t] = Recipients]
    /\ pending' = [pending EXCEPT ![t] = Recipients]
    /\ ready' = ready \o SendTasks(t, Recipients)

\* task t's await of broadcast_event has returned
BroadcastReturned(t) ==
    /\ sent_to' = [sent_to EXCEPT ![t] = {}]
    /\ got' = [got EXCEPT ![t] = NoDeliveries]
    /\ failed' = [failed EXCEPT ![t] = {}]

\* ------------------------------------------------------------ handle_message
NoRequest == [type |-> "none", success |-> FALSE]

\* handle_websocket/handle_message, 'unlock_door': duration = data.get(
\* 'duration', None); success = self.door_lock.unlock_door(duration)
HandleUnlockDoor(c, d) ==
    /\ LoopFree
    /\ hpc[c] = "idle"
    /\ conn[c] = "open"
    /\ FreeTimers # {}
    /\ now + (IF d = <<>> THEN lock_duration ELSE d[1]) <= MaxTime
    /\ call' = EnterUnlock(c, d)
    /\ episode' = NewEpisode("unlock_door")
    /\ hpc' = [hpc EXCEPT ![c] = "call"]
    /\ hreq' = [hreq EXCEPT ![c] = [type |-> "unlock_door", success |-> FALSE]]
    /\ UNCHANGED <<doorVars, timers, envVars, hubVars, configVars, dataVars, imageVars, profileVars, streamVars>>

\* handle_message, 'lock_door': success = self.door_lock.force_lock()
HandleLockDoor(c) ==
    /\ LoopFree
    /\ hpc[c] = "idle"
    /\ conn[c] = "open"
    /\ call' = EnterForceLock(c)
    /\ episode' = NewEpisode("force_lock")
    /\ hpc' = [hpc EXCEPT ![c] = "call"]
    /\ hreq' = [hreq EXCEPT ![c] = [type |-> "lock_door", success |-> FALSE]]
    /\ UNCHANGED <<doorVars, timers, envVars, hubVars, configVars, dataVars, imageVars, profileVars, streamVars>>

\* the recognition_interval values an 'update_performance_settings' message
\* carries here
Intervals == {1, 2}

\* the recognition intervals a request can carry: int() accepts 0 as well
IntervalInputs == {0} \cup Intervals

\* a field of a request: not carried, carried with a value the conversion
\* accepts, or carried with one int() raises on
Absent == "absent"
Valid == "valid"
Invalid == "invalid"
Qualities == {45, 60, 85}

Field(values, states) ==
    [state : {Valid}, value : values]
        \cup [state : states \ {Valid}, value : {CHOOSE v \in values : TRUE}]

\* the settings a request can carry, of the fields that are modelled:
\* target_fps and max_width are applied the same way and are left out.
\* bool() raises on nothing
Settings == [recognition_interval : Field(IntervalInputs, {Absent, Valid, Invalid}),
             jpeg_quality : Field(Qualities, {Absent, Valid, Invalid}),
             adaptive_quality : Field(BOOLEAN, {Absent, Valid})]

\* a request that carries recognition_interval only
IntervalOnly(k) ==
    [recognition_interval |-> [state |-> Valid, value |-> k],
     jpeg_quality |-> [state |-> Absent, value |-> CHOOSE v \in Qualities : TRUE],
     adaptive_quality |-> [state |-> Absent, value |-> CHOOSE v \in BOOLEAN : TRUE]]

\* update_performance_settings reaches the assignment of a field when no
\* conversion before it raised: the fields are converted and assigned one by
\* one, in the order recognition_interval, jpeg_quality, adaptive_quality
ReachesJpegQuality(settings) == settings.recognition_interval.state # Invalid
ReachesAdaptiveQuality(settings) ==
    ReachesJpegQuality(settings) /\ settings.jpeg_quality.state # Invalid

\* handle_message, 'update_performance_settings': update_performance_settings
\* has no await: inside one try, if 'recognition_interval' in settings:
\* self.recognition_interval = int(...); if 'jpeg_quality' in settings:
\* self.jpeg_quality = int(...); if 'adaptive_quality' in settings:
\* self.adaptive_quality = bool(...); self.save_config(); success True. The
\* except returns success False and restores nothing. Then the response
HandleUpdatePerformance(c, settings) ==
    /\ LoopFree
    /\ hpc[c] = "idle"
    /\ conn[c] = "open"
    /\ recognition_interval' =
          IF settings.recognition_interval.state = Valid
          THEN settings.recognition_interval.value ELSE recognition_interval
    /\ jpeg_quality' =
          IF ReachesJpegQuality(settings) /\ settings.jpeg_quality.state = Valid
          THEN settings.jpeg_quality.value ELSE jpeg_quality
    /\ adaptive_quality' =
          IF ReachesAdaptiveQuality(settings) /\ settings.adaptive_quality.state = Valid
          THEN settings.adaptive_quality.value ELSE adaptive_quality
    /\ hpc' = [hpc EXCEPT ![c] = "respond"]
    /\ hreq' = [hreq EXCEPT ![c] = [type |-> "update_performance_settings",
                                    success |-> ReachesAdaptiveQuality(settings)]]
    /\ UNCHANGED <<auto_unlock, unlock_confidence, hubVars, dataVars, imageVars, load, quality,
                   streamVars>>
    /\ UNCHANGED <<doorVars, timers, call, episode, envVars>>

max(a, b) == IF a > b THEN a ELSE b
min(a, b) == IF a < b THEN a ELSE b

\* the percentages psutil reports, on a grid that has both sides of each threshold
Loads == {10, 20, 30, 50, 75, 80, 90, 95}
NoLoad == <<None, None>>

adjust_quality_inclusive(cpu_percent, memory_percent) ==
    IF ~adaptive_quality THEN jpeg_quality
    ELSE IF cpu_percent >= 90 \/ memory_percent >= 90 THEN max(30, jpeg_quality - 20)
    ELSE IF cpu_percent >= 75 \/ memory_percent >= 75 THEN max(40, jpeg_quality - 10)
    ELSE IF cpu_percent < 50 /\ memory_percent < 50 THEN min(85, jpeg_quality + 5)
    ELSE jpeg_quality

\* adjust_quality_based_on_load, given what psutil.cpu_percent() and
\* psutil.virtual_memory().percent return
adjust_quality_based_on_load(cpu_percent, memory_percent) ==
    IF ~adaptive_quality THEN jpeg_quality
    ELSE IF cpu_percent > 90 \/ memory_percent > 90 THEN max(30, jpeg_quality - 20)
    ELSE IF cpu_percent > 75 \/ memory_percent > 75 THEN max(40, jpeg_quality - 10)
    ELSE IF cpu_percent < 50 /\ memory_percent < 50 THEN min(85, jpeg_quality + 5)
    ELSE jpeg_quality

\* start_camera_stream: quality = self.adjust_quality_based_on_load()
AdjustQuality(cpu_percent, memory_percent) ==
    /\ load' = <<cpu_percent, memory_percent>>
    /\ quality' = adjust_quality_based_on_load(cpu_percent, memory_percent)
    /\ UNCHANGED <<jpeg_quality, adaptive_quality>>
    /\ UNCHANGED <<hubVars, handlerVars, configVars, dataVars, imageVars, streamVars>>
    /\ UNCHANGED <<doorVars, timers, call, episode, envVars>>

\* the unlock thresholds a request can set, in percent
Confidences == {60, 80}

\* the configuration a request can carry, of the fields that are modelled:
\* lock_duration is applied the same way and is left out.  bool() raises on
\* nothing, float() raises on text that is no number
DoorConfigs == [auto_unlock : Field(BOOLEAN, {Absent, Valid}),
                unlock_confidence : Field(Confidences, {Absent, Valid, Invalid})]

\* handle_message, 'update_door_config': update_door_config up to its await:
\* inside one try, if 'auto_unlock' in config: self.auto_unlock = bool(...);
\* if 'unlock_confidence' in config: self.unlock_confidence = float(...);
\* self.save_config(); await self.broadcast_event('config_updated', ...).
\* The except returns success False
HandleUpdateDoorConfig(c, config) ==
    /\ LoopFree
    /\ hpc[c] = "idle"
    /\ conn[c] = "open"
    /\ auto_unlock' =
          IF config.auto_unlock.state = Valid
          THEN config.auto_unlock.value ELSE auto_unlock
    /\ unlock_confidence' =
          IF config.unlock_confidence.state = Valid
          THEN config.unlock_confidence.value ELSE unlock_confidence
    /\ hreq' = [hreq EXCEPT ![c] =
                   [type |-> "update_door_config",
                    success |-> config.unlock_confidence.state # Invalid]]
    /\ IF config.unlock_confidence.state # Invalid
       THEN /\ hpc' = [hpc EXCEPT ![c] = "broadcast"]
            /\ Broadcast(c)
       ELSE /\ hpc' = [hpc EXCEPT ![c] = "respond"]
            /\ UNCHANGED <<sent_to, pending, ready>>
    /\ UNCHANGED <<clients, conn, got, failed, recognition_interval, dataVars, imageVars, profileVars,
                   streamVars>>
    /\ UNCHANGED <<doorVars, timers, call, episode, envVars>>

\* handle_message after the door call returned: if success: await
\* broadcast_event('door_unlocked' | 'door_locked', ...); then the response
AfterDoorCall(c) ==
    /\ call.pc = "return"
    /\ call.task = c
    /\ hpc[c] = "call"
    /\ call' = NoCall
    /\ hreq' = [hreq EXCEPT ![c].success = call.result]
    /\ IF call.result
       THEN /\ hpc' = [hpc EXCEPT ![c] = "broadcast"]
            /\ Broadcast(c)
       ELSE /\ hpc' = [hpc EXCEPT ![c] = "respond"]
            /\ UNCHANGED <<sent_to, pending, ready>>
    /\ UNCHANGED <<clients, conn, got, failed, configVars, dataVars, imageVars, profileVars, streamVars>>
    /\ UNCHANGED <<doorVars, timers, episode, envVars>>

\* handle_message: the broadcast has returned; return {'type': ..._response}
AfterBroadcast(c) ==
    /\ LoopFree
    /\ hpc[c] = "broadcast"
    /\ GatherDone(c)
    /\ hpc' = [hpc EXCEPT ![c] = "respond"]
    /\ BroadcastReturned(c)
    /\ UNCHANGED <<clients, conn, pending, ready, hreq, configVars, dataVars, imageVars, profileVars, streamVars>>
    /\ UNCHANGED <<doorVars, timers, call, episode, envVars>>

\* handle_websocket: await websocket.send(json.dumps(response)); an exception
\* of the send is caught by the inner except; back to 'async for message'
Respond(c) ==
    /\ LoopFree
    /\ hpc[c] = "respond"
    /\ hpc' = [hpc EXCEPT ![c] = "idle"]
    /\ hreq' = [hreq EXCEPT ![c] = NoRequest]
    /\ UNCHANGED <<hubVars, configVars, dataVars, imageVars, profileVars, streamVars>>
    /\ UNCHANGED <<doorVars, timers, call, episode, envVars>>

\* ------------------------------------------------------------- process_frame
\* face_recognition distances and confidences are kept in percent
tolerance == 40                     \* self.tolerance = 0.4
\* face_distance of the best match: confidence exactly at the unlock
\* confidence, a match exactly at the tolerance, and no match
Distances == {20, 40, 50}
Unknown == "Unknown"

\* the matcher's answer for one located face: the index of the nearest known
\* encoding (np.argmin) and its distance
MatcherOutputs == [best : 1..Len(known_face_names), dist : Distances]

\* compare_faces(...)[best_match_index]: the distance is within the tolerance
Matched(m) == m.dist <= tolerance

NoDetection == [name |-> Unknown, confidence |-> 0, is_authorized |-> FALSE,
                requested |-> FALSE]

\* name, confidence and is_authorized of one face, as the for loop computes them
Detection(m) ==
    IF Matched(m)
    THEN [name |-> known_face_names[m.best],
          confidence |-> 100 - m.dist,
          is_authorized |-> known_face_names[m.best] \in authorized_users,
          requested |-> FALSE]
    ELSE NoDetection

\* an automatic unlock that does not ask whether the user is authorized
ShouldAutoUnlockAnyUser(d) ==
    /\ auto_unlock
    /\ d.confidence >= unlock_confidence
    /\ ~is_unlocked

\* an automatic unlock that does not ask whether the door is unlocked
ShouldAutoUnlockAgain(d) ==
    /\ auto_unlock
    /\ d.is_authorized
    /\ d.confidence >= unlock_confidence

\* an automatic unlock that does not ask whether auto_unlock is enabled
ShouldAutoUnlockAlways(d) ==
    /\ d.is_authorized
    /\ d.confidence >= unlock_confidence
    /\ ~is_unlocked

\* the condition of the automatic unlock
ShouldAutoUnlock(d) ==
    /\ auto_unlock
    /\ d.is_authorized
    /\ d.confidence >= unlock_confidence
    /\ ~is_unlocked

\* 'if confidence >= self.unlock_confidence: await self.log_recognition(...)'
ShouldLog(d) == d.confidence >= unlock_confidence

\* a process_frame that returns after the first face of a frame
NextFaceFirstOnly(n) == "encode"

\* where the for loop goes once a face is done (results.append)
NextFace(n) == IF n > 1 THEN "face" ELSE "encode"

\* a frame index no frame has: the stream handles frames 0..MaxFrames-1
NoFrame == MaxFrames

\* results = [] at the entry of process_frame, for the frame it was given
NoResults == [frame |-> NoFrame, faces |-> 0]

NoPayload == [image |-> NoFrame, results |-> NoResults]

\* results.append(...): one more detection in the results of task s
Appended(s) == [results EXCEPT ![s].faces = @ + 1]

\* a VideoCapture object that has not been constructed yet
NoHandle == [st |-> "unborn", by |-> None, releases |-> 0]

FreeHandles == {h \in HandleIds : handles[h].st = "unborn"}

\* cv2.VideoCapture(index) by task s: the device opens or it does not
NewHandle(s, opened) ==
    [st |-> IF opened THEN "open" ELSE "failed", by |-> s, releases |-> 0]

\* VideoCapture.release() on handle h (two stands for twice or more)
Release(h) ==
    IF h = None
    THEN handles
    ELSE [handles EXCEPT ![h].st = IF @ = "open" THEN "released" ELSE @,
                         ![h].releases = IF @ < 2 THEN @ + 1 ELSE @]

\* handle h was never opened, or was opened and released exactly once
Settled(hs, h) == hs[h].st = "failed" \/ (hs[h].st = "released" /\ hs[h].releases = 1)

\* self.camera stops referring to handle h: the object is garbage, and the
\* model keeps its record only if its releases do not match its opening
Forget(hs, h) ==
    IF h # None /\ Settled(hs, h) THEN [hs EXCEPT ![h] = NoHandle] ELSE hs

\* a stop of the stream that also cancels the pending relock timer
stop_camera_stream_and_relock ==
    /\ running' = FALSE
    /\ handles' = Forget(Release(camera), camera)
    /\ camera' = None
    /\ timers' = IF PendingTimer # None THEN cancel(PendingTimer) ELSE timers
    /\ UNCHANGED doorVars

\* stop_camera_stream: self.running = False; if self.camera: release it;
\* self.camera = None.  It touches nothing of self.door_lock
stop_camera_stream ==
    /\ running' = FALSE
    /\ handles' = Forget(Release(camera), camera)
    /\ camera' = None
    /\ UNCHANGED <<doorVars, timers>>

\* the while condition of start_camera_stream
LoopCondition == running /\ clients # {}

\* task s is at the while condition: after its sleep, or straight from
\* opening the camera
AtLoopTop(s) == spc[s] \in {"loop", "top"}

\* the loop thread can run task s now
MayRun(s) == call.fn = "none" /\ \A r \in Starts \ {s} : spc[r] # "top"

\* the locals of a task that is not inside an iteration
IdleLocals(s) ==
    /\ frame' = [frame EXCEPT ![s] = NoFrame]
    /\ perform_recognition' = [perform_recognition EXCEPT ![s] = FALSE]
    /\ results' = [results EXCEPT ![s] = NoResults]
    /\ payload' = [payload EXCEPT ![s] = NoPayload]

\* start_camera_stream, first run of the task: if self.running: return;
\* open the camera; self.running = True.  When no camera opens, the exception
\* goes through finally: stop_camera_stream, and the VideoCapture objects
\* that failed to open are garbage
StreamStart(s) ==
    /\ LoopFree
    /\ spc[s] = "scheduled"
    /\ IF running
       THEN /\ spc' = [spc EXCEPT ![s] = "off"]
            /\ UNCHANGED cameraVars
       ELSE \E h \in FreeHandles, opened \in BOOLEAN :
               /\ \A j \in FreeHandles : h <= j
               /\ IF opened
                  THEN /\ handles' = [Forget(handles, camera) EXCEPT
                                          ![h] = NewHandle(s, TRUE)]
                       /\ camera' = h
                       /\ running' = TRUE
                       /\ spc' = [spc EXCEPT ![s] = "top"]
                  ELSE /\ handles' = Forget(handles, camera)
                       /\ camera' = None
                       /\ running' = FALSE
                       /\ spc' = [spc EXCEPT ![s] = "off"]
    /\ UNCHANGED <<frame, perform_recognition, results, faces_left, cur, payload>>
    /\ UNCHANGED <<frame_count, halted, start_owed>>
    /\ UNCHANGED <<hubVars, handlerVars, configVars, dataVars, imageVars, profileVars>>
    /\ UNCHANGED <<doorVars, timers, call, episode, envVars>>

\* start_camera_stream: the while condition is false (or self.camera is None
\* and read raises): finally: self.stop_camera_stream(); the task ends
StreamExit(s) ==
    /\ MayRun(s)
    /\ AtLoopTop(s)
    /\ ~LoopCondition \/ camera = None
    /\ stop_camera_stream
    /\ spc' = [spc EXCEPT ![s] = "off"]
    /\ halted' = [halted EXCEPT ![s] = FALSE]
    /\ UNCHANGED <<frame, perform_recognition, results, faces_left, cur, payload>>
    /\ UNCHANGED <<frame_count, start_owed>>
    /\ UNCHANGED <<hubVars, handlerVars, configVars, dataVars, imageVars, profileVars>>
    /\ UNCHANGED <<call, episode, envVars>>

\* start_camera_stream: ret, frame = self.camera.read() with ret False:
\* self.camera.release(); await asyncio.sleep(0.1)
StreamReadFailed(s) ==
    /\ MayRun(s)
    /\ AtLoopTop(s)
    /\ LoopCondition
    /\ camera # None
    /\ handles' = Release(camera)
    /\ spc' = [spc EXCEPT ![s] = "reinit"]
    /\ UNCHANGED <<running, camera>>
    /\ UNCHANGED <<frame, perform_recognition, results, faces_left, cur, payload>>
    /\ UNCHANGED <<frame_count, halted, start_owed>>
    /\ UNCHANGED <<hubVars, handlerVars, configVars, dataVars, imageVars, profileVars>>
    /\ UNCHANGED <<doorVars, timers, call, episode, envVars>>

\* start_camera_stream after the sleep: self.camera = cv2.VideoCapture(0);
\* if it is not opened: await asyncio.sleep(1); continue
StreamReinit(s, opened) ==
    /\ LoopFree
    /\ spc[s] = "reinit"
    /\ \E h \in FreeHandles :
          /\ \A j \in FreeHandles : h <= j
          /\ handles' = [Forget(handles, camera) EXCEPT ![h] = NewHandle(s, opened)]
          /\ camera' = h
    /\ spc' = [spc EXCEPT ![s] = IF opened THEN "top" ELSE "loop"]
    /\ UNCHANGED running
    /\ UNCHANGED <<frame, perform_recognition, results, faces_left, cur, payload>>
    /\ UNCHANGED <<frame_count, halted, start_owed>>
    /\ UNCHANGED <<hubVars, handlerVars, configVars, dataVars, imageVars, profileVars>>
    /\ UNCHANGED <<doorVars, timers, call, episode, envVars>>

\* face_recognition_system.py, start_camera_stream: ret, frame =
\* self.camera.read() with ret False: self.camera.release(); self.camera =
\* cv2.VideoCapture(0); if not self.camera.isOpened(): raise Exception(...),
\* which ends the loop through the outer except and finally:
\* stop_camera_stream; else continue.  No await on the way
BasicReadFailed(s, opened) ==
    /\ MayRun(s)
    /\ AtLoopTop(s)
    /\ LoopCondition
    /\ camera # None
    /\ IF opened
       THEN \E h \in FreeHandles :
               /\ \A j \in FreeHandles : h <= j
               /\ handles' = [Forget(Release(camera), camera) EXCEPT
                                  ![h] = NewHandle(s, TRUE)]
               /\ camera' = h
               /\ spc' = [spc EXCEPT ![s] = "top"]
               /\ UNCHANGED <<running, halted>>
       ELSE /\ handles' = Forget(Release(camera), camera)
            /\ camera' = None
            /\ running' = FALSE
            /\ spc' = [spc EXCEPT ![s] = "off"]
            /\ halted' = [halted EXCEPT ![s] = FALSE]
    /\ UNCHANGED <<frame, perform_recognition, results, faces_left, cur, payload>>
    /\ UNCHANGED <<frame_count, start_owed>>
    /\ UNCHANGED <<hubVars, handlerVars, configVars, dataVars, imageVars, profileVars>>
    /\ UNCHANGED <<doorVars, timers, call, episode, envVars>>

\* a recognition gate that tests the frame count after its increment
PerformRecognitionAfterIncrement(force_recognition) ==
    force_recognition \/ (frame_count + 1) % recognition_interval = 0

\* process_frame: perform_recognition = force_recognition or
\* (self.frame_count % self.recognition_interval == 0)
PerformRecognition(force_recognition) ==
    force_recognition \/ frame_count % recognition_interval = 0

\* a process_frame that runs the matcher whatever the gate says
AfterGateUngated(perform) == "recognize"

\* process_frame, 'if perform_recognition:': the matcher runs in the executor,
\* or process_frame returns its empty results and the frame is encoded
AfterGate(perform) == IF perform THEN "recognize" ELSE "encode"

\* start_camera_stream loop body up to the first await: the while condition
\* holds, camera.read() returns a frame, and process_frame(frame) runs up to
\* its first await: perform_recognition, results = [], self.frame_count += 1
StreamFrameBegin(s) ==
    /\ MayRun(s)
    /\ AtLoopTop(s)
    /\ LoopCondition
    /\ camera # None
    /\ handles[camera].st = "open"
    /\ frame_count < MaxFrames
    /\ recognition_interval # 0
    /\ frame' = [frame EXCEPT ![s] = frame_count]
    /\ perform_recognition' = [perform_recognition EXCEPT ![s] = PerformRecognition(FALSE)]
    /\ results' = [results EXCEPT ![s] = [frame |-> frame_count, faces |-> 0]]
    /\ frame_count' = frame_count + 1
    /\ spc' = [spc EXCEPT ![s] = AfterGate(PerformRecognition(FALSE))]
    /\ UNCHANGED <<faces_left, cur, payload, cameraVars, halted, start_owed>>
    /\ UNCHANGED <<hubVars, handlerVars, configVars, dataVars, imageVars, profileVars>>
    /\ UNCHANGED <<doorVars, timers, call, episode, envVars>>

\* start_camera_stream loop body with self.recognition_interval 0: the while
\* condition holds, camera.read() returns a frame, and process_frame raises
\* ZeroDivisionError at 'self.frame_count % self.recognition_interval',
\* before self.frame_count += 1.  The 'except Exception' of the loop body
\* prints it; the encoding and the frame event are skipped and the loop goes
\* to its sleep
StreamFrameRaises(s) ==
    /\ MayRun(s)
    /\ AtLoopTop(s)
    /\ LoopCondition
    /\ camera # None
    /\ handles[camera].st = "open"
    /\ recognition_interval = 0
    /\ spc' = [spc EXCEPT ![s] = "loop"]
    /\ UNCHANGED <<frame, perform_recognition, results, faces_left, cur, payload>>
    /\ UNCHANGED <<frame_count, cameraVars, halted, start_owed>>
    /\ UNCHANGED <<hubVars, handlerVars, configVars, dataVars, imageVars, profileVars>>
    /\ UNCHANGED <<doorVars, timers, call, episode, envVars>>

\* process_frame: the executor has returned face_locations and face_encodings
StreamRecognized(s, n) ==
    /\ LoopFree
    /\ spc[s] = "recognize"
    /\ faces_left' = [faces_left EXCEPT ![s] = n]
    /\ spc' = [spc EXCEPT ![s] = IF n = 0 THEN "encode" ELSE "face"]
    /\ UNCHANGED <<frame, perform_recognition, results, cur, payload>>
    /\ UNCHANGED <<frame_count, cameraVars, halted, start_owed>>
    /\ UNCHANGED <<hubVars, handlerVars, configVars, dataVars, imageVars, profileVars>>
    /\ UNCHANGED <<doorVars, timers, call, episode, envVars>>

\* process_frame: the matcher raises in the executor.  process_frame has no
\* handler: the exception leaves it and is caught by the 'except Exception'
\* of the loop body, which prints it; the encoding and the frame event of
\* this frame are skipped, and the loop goes to its sleep
StreamRecognizeFailed(s) ==
    /\ LoopFree
    /\ spc[s] = "recognize"
    /\ spc' = [spc EXCEPT ![s] = "loop"]
    /\ IdleLocals(s)
    /\ UNCHANGED <<faces_left, cur>>
    /\ UNCHANGED <<frame_count, cameraVars, halted, start_owed>>
    /\ UNCHANGED <<hubVars, handlerVars, configVars, dataVars, imageVars, profileVars>>
    /\ UNCHANGED <<doorVars, timers, call, episode, envVars>>

\* the rest of the loop body for the face d of task s, from the 'confidence >=
\* unlock_confidence' test before log_recognition on
LogOrAppend(s, d) ==
    IF ShouldLog(d)
    THEN /\ spc' = [spc EXCEPT ![s] = "log"]
         /\ Broadcast(s)
         /\ faces_left' = faces_left
         /\ cur' = [cur EXCEPT ![s] = d]
         /\ results' = results
    ELSE /\ spc' = [spc EXCEPT ![s] = NextFace(faces_left[s])]
         /\ sent_to' = [sent_to EXCEPT ![s] = {}]
         /\ pending' = [pending EXCEPT ![s] = {}]
         /\ ready' = ready
         /\ faces_left' = [faces_left EXCEPT ![s] = @ - 1]
         /\ cur' = [cur EXCEPT ![s] = NoDetection]
         /\ results' = Appended(s)

\* process_frame, one pass of the for loop up to its first await: match the
\* face, and unlock the door when the conditions of the automatic unlock hold
StreamDetect(s, m) ==
    /\ LoopFree
    /\ spc[s] = "face"
    /\ LET d == Detection(m) IN
          IF Matched(m) /\ ShouldAutoUnlock(d)
          THEN /\ FreeTimers # {}
               /\ now + lock_duration <= MaxTime
               /\ call' = EnterUnlock(s, <<>>)
               /\ episode' = NewEpisode("unlock_door")
               /\ spc' = [spc EXCEPT ![s] = "call"]
               /\ cur' = [cur EXCEPT ![s] = [d EXCEPT !.requested = TRUE]]
               /\ UNCHANGED <<faces_left, results, sent_to, pending, ready>>
          ELSE /\ IF Matched(m)
                  THEN LogOrAppend(s, d)
                  ELSE /\ spc' = [spc EXCEPT ![s] = NextFace(faces_left[s])]
                       /\ faces_left' = [faces_left EXCEPT ![s] = @ - 1]
                       /\ cur' = [cur EXCEPT ![s] = NoDetection]
                       /\ results' = Appended(s)
                       /\ UNCHANGED <<sent_to, pending, ready>>
               /\ UNCHANGED <<call, episode>>
    /\ UNCHANGED <<frame, perform_recognition, payload>>
    /\ UNCHANGED <<frame_count, cameraVars, halted, start_owed>>
    /\ UNCHANGED <<clients, conn, got, failed, handlerVars, configVars, dataVars, imageVars, profileVars>>
    /\ UNCHANGED <<doorVars, timers, envVars>>

\* process_frame after unlock_door returned: if unlock_success: await
\* broadcast_event('door_unlocked', ...)
StreamAfterUnlock(s) ==
    /\ call.pc = "return"
    /\ call.task = s
    /\ spc[s] = "call"
    /\ call' = NoCall
    /\ IF call.result
       THEN /\ spc' = [spc EXCEPT ![s] = "unlocked_event"]
            /\ Broadcast(s)
            /\ UNCHANGED <<faces_left, cur, results>>
       ELSE LogOrAppend(s, cur[s])
    /\ UNCHANGED <<frame, perform_recognition, payload>>
    /\ UNCHANGED <<frame_count, cameraVars, halted, start_owed>>
    /\ UNCHANGED <<clients, conn, got, failed, handlerVars, configVars, dataVars, imageVars, profileVars>>
    /\ UNCHANGED <<doorVars, timers, episode, envVars>>

\* process_frame: the 'door_unlocked' broadcast has returned
StreamAfterUnlockedEvent(s) ==
    /\ LoopFree
    /\ spc[s] = "unlocked_event"
    /\ GatherDone(s)
    /\ LogOrAppend(s, cur[s])
    /\ got' = [got EXCEPT ![s] = NoDeliveries]
    /\ failed' = [failed EXCEPT ![s] = {}]
    /\ UNCHANGED <<frame, perform_recognition, payload>>
    /\ UNCHANGED <<frame_count, cameraVars, halted, start_owed>>
    /\ UNCHANGED <<clients, conn, handlerVars, configVars, dataVars, imageVars, profileVars>>
    /\ UNCHANGED <<doorVars, timers, call, episode, envVars>>

\* process_frame: log_recognition and its 'recognition' broadcast have
\* returned; results.append(...) ends this pass of the for loop
StreamAfterLog(s) ==
    /\ LoopFree
    /\ spc[s] = "log"
    /\ GatherDone(s)
    /\ spc' = [spc EXCEPT ![s] = NextFace(faces_left[s])]
    /\ faces_left' = [faces_left EXCEPT ![s] = @ - 1]
    /\ cur' = [cur EXCEPT ![s] = NoDetection]
    /\ results' = Appended(s)
    /\ BroadcastReturned(s)
    /\ UNCHANGED <<frame, perform_recognition, payload>>
    /\ UNCHANGED <<frame_count, cameraVars, halted, start_owed>>
    /\ UNCHANGED <<clients, conn, pending, ready, handlerVars, configVars, dataVars, imageVars, profileVars>>
    /\ UNCHANGED <<doorVars, timers, call, episode, envVars>>

\* a stream that publishes the results of the frame process_frame was
\* entered for last, whichever task that was
PublishedResultsLatest(s) == [results[s] EXCEPT !.frame = frame_count - 1]

\* the results start_camera_stream puts next to the image: its local
\* 'results', which process_frame(frame) returned
PublishedResults(s) == results[s]

\* start_camera_stream: the executor has encoded the frame; if base64_frame:
\* await broadcast_event('frame', {'image': ..., 'results': results}); when
\* the encoding failed, straight to the sleep at the end of the loop body
StreamEncoded(s, encoded) ==
    /\ LoopFree
    /\ spc[s] = "encode"
    /\ IF encoded
       THEN /\ spc' = [spc EXCEPT ![s] = "frame_event"]
            /\ payload' = [payload EXCEPT ![s] =
                   [image |-> frame[s], results |-> PublishedResults(s)]]
            /\ Broadcast(s)
            /\ UNCHANGED <<frame, perform_recognition, results>>
       ELSE /\ spc' = [spc EXCEPT ![s] = "loop"]
            /\ IdleLocals(s)
            /\ UNCHANGED <<sent_to, pending, ready>>
    /\ UNCHANGED <<faces_left, cur>>
    /\ UNCHANGED <<frame_count, cameraVars, halted, start_owed>>
    /\ UNCHANGED <<clients, conn, got, failed, handlerVars, configVars, dataVars, imageVars, profileVars>>
    /\ UNCHANGED <<doorVars, timers, call, episode, envVars>>

\* start_camera_stream: the 'frame' broadcast has returned; await
\* asyncio.sleep(0.001) and go round the loop
StreamAfterFrame(s) ==
    /\ LoopFree
    /\ spc[s] = "frame_event"
    /\ GatherDone(s)
    /\ spc' = [spc EXCEPT ![s] = "loop"]
    /\ IdleLocals(s)
    /\ BroadcastReturned(s)
    /\ UNCHANGED <<faces_left, cur>>
    /\ UNCHANGED <<frame_count, cameraVars, halted, start_owed>>
    /\ UNCHANGED <<clients, conn, pending, ready, handlerVars, configVars, dataVars, imageVars, profileVars>>
    /\ UNCHANGED <<doorVars, timers, call, episode, envVars>>

\* ------------------------------------------------------------- connections
\* the start_camera_stream tasks that do not exist
FreeStarts == {s \in Starts : spc[s] = "off"}

\* handle_websocket / add_client up to its await: self.clients.add(websocket);
\* await websocket.send(door_status)
Connect(c) ==
    /\ LoopFree
    /\ hpc[c] = "none"
    /\ c \notin clients
    /\ clients' = clients \cup {c}
    /\ conn' = [conn EXCEPT ![c] = "open"]
    /\ hpc' = [hpc EXCEPT ![c] = "attach"]
    /\ start_owed' = (clients = {} \/ start_owed)
    /\ UNCHANGED <<sent_to, pending, ready, got, failed, hreq, configVars, dataVars, imageVars, profileVars>>
    /\ UNCHANGED <<taskVars, frame_count, cameraVars, halted>>
    /\ UNCHANGED <<doorVars, timers, call, episode, envVars>>

\* add_client after its await: if len(self.clients) == 1: asyncio.create_task(
\* self.start_camera_stream()).  When the send raised, the exception leaves
\* add_client and handle_websocket, whose try begins after add_client: the
\* handler ends without remove_client
AttachSent(c) ==
    /\ LoopFree
    /\ hpc[c] = "attach"
    /\ IF conn[c] = "open"
       THEN /\ hpc' = [hpc EXCEPT ![c] = "idle"]
            /\ IF Cardinality(clients) = 1
               THEN \E s \in FreeStarts :
                       /\ \A r \in FreeStarts : s <= r
                       /\ spc' = [spc EXCEPT ![s] = "scheduled"]
                       /\ halted' = [halted EXCEPT ![s] = FALSE]
                       /\ start_owed' = FALSE
               ELSE UNCHANGED <<spc, halted, start_owed>>
       ELSE /\ hpc' = [hpc EXCEPT ![c] = "dead"]
            /\ UNCHANGED <<spc, halted, start_owed>>
    /\ UNCHANGED <<frame, perform_recognition, results, faces_left, cur, payload>>
    /\ UNCHANGED <<frame_count, cameraVars>>
    /\ UNCHANGED <<hubVars, hreq, configVars, dataVars, imageVars, profileVars>>
    /\ UNCHANGED <<doorVars, timers, call, episode, envVars>>

\* the peer of connection c closes it (or the network drops it)
CloseConn(c) ==
    /\ conn[c] = "open"
    /\ conn' = [conn EXCEPT ![c] = "closed"]
    /\ UNCHANGED <<clients, sent_to, pending, ready, got, failed, handlerVars, configVars,
                   dataVars, imageVars, profileVars, streamVars>>
    /\ UNCHANGED <<doorVars, timers, call, episode, envVars>>

\* the peer of connection c stops reading and stays connected: the server
\* runs with ping_interval=None, so nothing closes the connection
StallConn(c) ==
    /\ conn[c] = "open"
    /\ conn' = [conn EXCEPT ![c] = "stalled"]
    /\ UNCHANGED <<clients, sent_to, pending, ready, got, failed, handlerVars, configVars,
                   dataVars, imageVars, profileVars, streamVars>>
    /\ UNCHANGED <<doorVars, timers, call, episode, envVars>>

\* handle_websocket: 'async for message in websocket' raises ConnectionClosed;
\* finally: await self.remove_client(websocket): self.clients.discard(
\* websocket); if not self.clients: self.stop_camera_stream()
RemoveClient(c) ==
    /\ LoopFree
    /\ hpc[c] = "idle"
    /\ conn[c] = "closed"
    /\ clients' = clients \ {c}
    /\ hpc' = [hpc EXCEPT ![c] = "none"]
    /\ conn' = [conn EXCEPT ![c] = "none"]
    /\ IF clients \ {c} = {}
       THEN /\ stop_camera_stream
            /\ halted' = [s \in Starts |->
                             halted[s] \/ spc[s] \notin {"off", "scheduled"}]
            /\ start_owed' = FALSE
       ELSE UNCHANGED <<cameraVars, doorVars, timers, halted, start_owed>>
    /\ UNCHANGED <<sent_to, pending, ready, got, failed, hreq, configVars, dataVars, imageVars, profileVars>>
    /\ UNCHANGED <<taskVars, frame_count>>
    /\ UNCHANGED <<call, episode, envVars>>

\* -------------------------------------------------------------------- Init
InitDoor ==
    /\ is_unlocked = FALSE
    /\ relay = "LOW"
    /\ unlock_timer = None
    /\ lock_duration = 2
    /\ timers = [i \in TimerIds |-> NoTimer]
    /\ call = NoCall
    /\ episode = NoEpisode

InitHubIdle ==
    /\ sent_to = [t \in Tasks |-> {}]
    /\ pending = [t \in Tasks |-> {}]
    /\ ready = <<>>
    /\ got = [t \in Tasks |-> NoDeliveries]
    /\ failed = [t \in Tasks |-> {}]

\* __init__: jpeg_quality 60, adaptive_quality True; no quality was chosen yet
NoBox == [top |-> 0, right |-> 0, bottom |-> 0, left |-> 0]

NoCapture == [width |-> 0, height |-> 0, face |-> NoBox]

NoImage == [width |-> 0, height |-> 0, box |-> NoBox]

\* max_width of __init__, no frame read yet
InitImageIdle ==
    /\ max_width = 320
    /\ captured = NoCapture
    /\ location = NoBox
    /\ image = NoImage

InitProfile ==
    /\ jpeg_quality = 60
    /\ adaptive_quality = TRUE
    /\ load = NoLoad
    /\ quality = None

\* the configuration and the enrolled faces load_config and load_face_data
\* find: one authorized and one unauthorized user
InitSystem ==
    /\ InitProfile
    /\ auto_unlock = TRUE
    /\ unlock_confidence = 80
    /\ recognition_interval = 1
    /\ known_face_names = <<"ann", "bob">>
    /\ known_face_encodings = <<1, 2>>
    /\ InitImageIdle
    /\ authorized_users = {"ann"}

\* no start_camera_stream task is inside an iteration
InitLocals ==
    /\ frame_count = 0
    /\ frame = [s \in Starts |-> NoFrame]
    /\ perform_recognition = [s \in Starts |-> FALSE]
    /\ results = [s \in Starts |-> NoResults]
    /\ faces_left = [s \in Starts |-> 0]
    /\ cur = [s \in Starts |-> NoDetection]
    /\ payload = [s \in Starts |-> NoPayload]
    /\ halted = [s \in Starts |-> FALSE]
    /\ start_owed = FALSE

\* __init__: self.camera = None; self.running = False; no stream task exists
InitStreamOff ==
    /\ spc = [s \in Starts |-> "off"]
    /\ running = FALSE
    /\ camera = None
    /\ handles = [h \in HandleIds |-> NoHandle]
    /\ InitLocals

\* the first start_camera_stream task has opened the camera and sleeps at the
\* end of an iteration of its loop
InitStreamRunning ==
    /\ spc = [s \in Starts |-> IF s = Stream THEN "loop" ELSE "off"]
    /\ running = TRUE
    /\ camera = 1
    /\ handles = [h \in HandleIds |-> IF h = 1 THEN NewHandle(Stream, TRUE) ELSE NoHandle]
    /\ InitLocals

\* observers 1..n are attached and their handlers wait for messages
Attached(n) ==
    /\ clients = 1..n
    /\ conn = [c \in Clients |-> IF c <= n THEN "open" ELSE "none"]
    /\ hpc = [c \in Clients |-> IF c <= n THEN "idle" ELSE "none"]
    /\ hreq = [c \in Clients |-> NoRequest]
    /\ InitHubIdle

TimerThread ==
    \E i \in TimerIds :
        \/ TimerExpire(i)
        \/ TimerCancelledExit(i)
        \/ LockDoorGpio(i)
        \/ LockDoorFlag(i)

DoorCall ==
    \/ DoorCancel
    \/ DoorGpio
    \/ UnlockFlag
    \/ UnlockTimer
    \/ ForceLockFlag

\* the steps of handle_message that follow a request
HandlerRest ==
    \E c \in Clients :
        \/ AfterDoorCall(c)
        \/ AfterBroadcast(c)
        \/ Respond(c)

Sends == \E t \in Tasks, c \in Clients : SendWrite(t, c) \/ SendComplete(t, c)

\* the steps of one iteration of the stream loop, without its door calls
StreamIteration ==
    \E s \in Starts :
        \/ StreamFrameBegin(s)
        \/ \E n \in 0..MaxFaces : StreamRecognized(s, n)
        \/ \E m \in MatcherOutputs : StreamDetect(s, m)
        \/ StreamAfterLog(s)
        \/ \E encoded \in BOOLEAN : StreamEncoded(s, encoded)
        \/ StreamAfterFrame(s)

\* the steps of process_frame around its unlock_door call
StreamUnlock ==
    \E s \in Starts :
        \/ StreamAfterUnlock(s)
        \/ StreamAfterUnlockedEvent(s)

StreamTask == StreamIteration \/ StreamUnlock

\* ---- the door controller under manual requests: one observer is attached,
\* ---- its handler serves 'unlock_door' and 'lock_door' messages; no stream
Init ==
    /\ InitDoor
    /\ now = 0
    /\ gpio_faulty \in BOOLEAN
    /\ Attached(1)
    /\ InitSystem
    /\ InitStreamOff

Next ==
    \/ TimerThread
    \/ DoorCall
    \/ \E c \in Clients, d \in DurationArgs : HandleUnlockDoor(c, d)
    \/ \E c \in Clients : HandleLockDoor(c)
    \/ HandlerRest
    \/ Sends
    \/ Tick

Spec == Init /\ [][Next]_vars

\* ---- the automatic unlock: one observer is attached, the stream task is in
\* ---- its loop, and the observer sends 'unlock_door' and 'lock_door' messages
InitAuto ==
    /\ InitDoor
    /\ now = 0
    /\ gpio_faulty = TRUE
    /\ Attached(1)
    /\ InitSystem
    /\ InitStreamRunning

NextAuto ==
    \/ TimerThread
    \/ DoorCall
    \/ StreamTask
    \/ \E c \in Clients : HandleUnlockDoor(c, <<>>)
    \/ \E c \in Clients : HandleLockDoor(c)
    \/ HandlerRest
    \/ Sends
    \/ Tick

SpecAuto == InitAuto /\ [][NextAuto]_vars

\* ---- the event hub: every observer is attached; observers send 'lock_door'
\* ---- messages, and connections close at any time
InitHub ==
    /\ InitDoor
    /\ now = 0
    /\ gpio_faulty = FALSE
    /\ Attached(MaxClients)
    /\ InitSystem
    /\ InitStreamOff

NextHub ==
    \/ DoorCancel
    \/ DoorGpio
    \/ ForceLockFlag
    \/ \E c \in Clients : HandleLockDoor(c)
    \/ HandlerRest
    \/ Sends
    \/ \E c \in Clients : CloseConn(c)
    \/ \E c \in Clients : RemoveClient(c)

SpecHub == InitHub /\ [][NextHub]_vars

\* the steps of a start_camera_stream task outside an iteration
StreamLifecycle ==
    \E s \in Starts :
        \/ StreamStart(s)
        \/ StreamExit(s)
        \/ StreamReadFailed(s)
        \/ \E opened \in BOOLEAN : StreamReinit(s, opened)

\* the steps of an iteration on a frame in which no face is located
StreamFaceless ==
    \E s \in Starts :
        \/ StreamFrameBegin(s)
        \/ StreamRecognized(s, 0)
        \/ \E encoded \in BOOLEAN : StreamEncoded(s, encoded)
        \/ StreamAfterFrame(s)

\* the steps of handle_websocket(c) around its message loop
Connection(c) ==
    \/ Connect(c)
    \/ AttachSent(c)
    \/ CloseConn(c)
    \/ RemoveClient(c)

\* nothing is attached and nothing has been started
InitDetached ==
    /\ InitDoor
    /\ now = 0
    /\ gpio_faulty = FALSE
    /\ clients = {}
    /\ conn = [c \in Clients |-> "none"]
    /\ hpc = [c \in Clients |-> "none"]
    /\ hreq = [c \in Clients |-> NoRequest]
    /\ InitHubIdle
    /\ InitStreamOff

\* ---- the life of the stream: one observer attaches, detaches and attaches
\* ---- again, the camera opens or fails, and the observer changes
\* ---- recognition_interval; no frame shows a face, and the matcher may fail
InitLife ==
    /\ InitDetached
    /\ InitSystem

NextLife ==
    \/ Connection(1)
    \/ StreamLifecycle
    \/ StreamFaceless
    \/ \E s \in Starts : StreamRecognizeFailed(s)
    \/ \E k \in Intervals : HandleUpdatePerformance(1, IntervalOnly(k))
    \/ Respond(1)
    \/ Sends

SpecLife == InitLife /\ [][NextLife]_vars

\* ---- attaching: every observer attaches and detaches, the camera always
\* ---- opens and reads, and no frame shows a face
InitAttach ==
    /\ InitDetached
    /\ InitSystem

NextAttach ==
    \/ \E c \in Clients : Connection(c)
    \/ \E s \in Starts : StreamStart(s) \/ StreamExit(s)
    \/ \E s \in Starts : StreamFrameBegin(s)
    \/ \E s \in Starts : StreamRecognized(s, 0)
    \/ \E s \in Starts : StreamEncoded(s, TRUE)
    \/ \E s \in Starts : StreamAfterFrame(s)
    \/ Sends

SpecAttach == InitAttach /\ [][NextAttach]_vars

\* ---- a stalled observer: every observer is attached and the stream task is
\* ---- in its loop; observer 1 may stop reading for good.  The loop thread
\* ---- runs every task that can run, and a send to a peer that reads or has
\* ---- closed completes
InitStall ==
    /\ InitDoor
    /\ now = 0
    /\ gpio_faulty = FALSE
    /\ Attached(MaxClients)
    /\ InitSystem
    /\ InitStreamRunning

NextStall ==
    \/ StallConn(1)
    \/ \E c \in Clients : CloseConn(c)
    \/ \E c \in Clients : RemoveClient(c)
    \/ StreamFaceless
    \/ \E s \in Starts : StreamExit(s)
    \/ Sends

FairStall ==
    /\ \A t \in Tasks, c \in Clients : WF_vars(SendWrite(t, c))
    /\ \A t \in Tasks, c \in Clients : WF_vars(SendComplete(t, c))
    /\ \A s \in Starts : WF_vars(StreamAfterFrame(s))

SpecStall == InitStall /\ [][NextStall]_vars /\ FairStall

\* ---- stopping: one observer is attached and the stream task is in its
\* ---- loop; frames show faces, the door unlocks automatically and relocks,
\* ---- and the observer disconnects at any time.  The configuration file
\* ---- gives the recognition interval
InitCancel ==
    /\ InitDoor
    /\ now = 0
    /\ gpio_faulty = FALSE
    /\ Attached(1)
    /\ auto_unlock = TRUE
    /\ unlock_confidence = 80
    /\ recognition_interval \in Intervals
    /\ InitProfile
    /\ known_face_names = <<"ann", "bob">>
    /\ known_face_encodings = <<1, 2>>
    /\ InitImageIdle
    /\ authorized_users = {"ann"}
    /\ InitStreamRunning

NextCancel ==
    \/ \E i \in TimerIds : TimerExpire(i) \/ LockDoorGpio(i) \/ LockDoorFlag(i)
    \/ DoorCancel
    \/ DoorGpio
    \/ UnlockFlag
    \/ UnlockTimer
    \/ StreamTask
    \/ \E s \in Starts : StreamExit(s)
    \/ CloseConn(1)
    \/ RemoveClient(1)
    \/ Sends
    \/ Tick

SpecCancel == InitCancel /\ [][NextCancel]_vars

\* ---- restarts: one observer attaches, detaches and attaches again and
\* ---- changes recognition_interval; the camera always opens and reads, no
\* ---- frame shows a face, and every frame is encoded
InitRestart ==
    /\ InitDetached
    /\ InitSystem

NextRestart ==
    \/ Connection(1)
    \/ \E s \in Starts : StreamStart(s) \/ StreamExit(s)
    \/ \E s \in Starts : StreamFrameBegin(s)
    \/ \E s \in Starts : StreamRecognized(s, 0)
    \/ \E s \in Starts : StreamEncoded(s, TRUE)
    \/ \E s \in Starts : StreamAfterFrame(s)
    \/ \E k \in Intervals : HandleUpdatePerformance(1, IntervalOnly(k))
    \/ Respond(1)
    \/ Sends

SpecRestart == InitRestart /\ [][NextRestart]_vars

\* ---- the stream loop of face_recognition_system.py: one observer attaches
\* ---- and detaches, reads fail and the camera reopens or not; every frame is
\* ---- recognized (there is no recognition interval) and shows no face
InitBasic ==
    /\ InitDetached
    /\ InitSystem

NextBasic ==
    \/ Connection(1)
    \/ \E s \in Starts : StreamStart(s) \/ StreamExit(s)
    \/ \E s \in Starts, opened \in BOOLEAN : BasicReadFailed(s, opened)
    \/ \E s \in Starts : StreamFrameBegin(s)
    \/ \E s \in Starts : StreamRecognized(s, 0)
    \/ \E s \in Starts : StreamEncoded(s, TRUE)
    \/ \E s \in Starts : StreamAfterFrame(s)
    \/ Sends

SpecBasic == InitBasic /\ [][NextBasic]_vars

\* ===================================================================== claims

\* a stream task is inside the unlock_door call it made for the face in cur
AutoUnlockCall == call.fn = "unlock_door" /\ call.task \in Starts

\* C1: an automatic unlock is made only for a detection whose identity is
\* known and in the authorized set, whose confidence is at least the unlock
\* confidence (equality included), and while the door is locked; so no
\* unknown, unauthorized or low-confidence detection drives the relay HIGH.
C1_AutoUnlockOnlyWhenEligible ==
    AutoUnlockCall =>
        /\ cur[call.task].name # Unknown
        /\ cur[call.task].name \in authorized_users
        /\ cur[call.task].confidence >= unlock_confidence
        /\ ~call.was_unlocked

\* the automatic unlock of a detection exactly at the threshold has driven
\* the relay HIGH
C1_Witness ==
    /\ AutoUnlockCall
    /\ call.pc = "flag"
    /\ relay = "HIGH"
    /\ cur[call.task].confidence = unlock_confidence

\* the for loop of process_frame of task s handles one located face in this step
DetectStep(s) == spc[s] = "face" /\ <<spc[s], faces_left[s]>>' # <<spc[s], faces_left[s]>>

\* the detection the for loop has just handled meets every condition of the
\* automatic unlock other than the state of the door
EligibleNext(s) ==
    auto_unlock /\ cur'[s].is_authorized /\ cur'[s].confidence >= unlock_confidence

\* C2: the automatic unlock is a no-op while the door is Unlocked: the pass of
\* the for loop over a detection then makes no unlock_door call, writes no
\* relay level and leaves the relock timer alone; an eligible detection while
\* the door is Locked makes the one unlock_door call.
C2_AutoUnlockNoOpWhileUnlocked ==
    [][\A s \in Starts : DetectStep(s) =>
          /\ is_unlocked => UNCHANGED <<call, timers, relay, unlock_timer, is_unlocked, episode>>
          /\ (~is_unlocked /\ EligibleNext(s)) =>
                (call'.fn = "unlock_door" /\ call'.task = s /\ call.fn = "none")]_vars

\* an eligible detection has been handled while the door was Unlocked and its
\* relock timer armed: the loop went on to log_recognition without a call
C2_Witness ==
    /\ spc[Stream] = "log"
    /\ ~cur[Stream].requested
    /\ cur[Stream].is_authorized
    /\ cur[Stream].confidence >= unlock_confidence
    /\ is_unlocked
    /\ unlock_timer # None
    /\ armed(unlock_timer)
    /\ LoopFree

\* timer i runs its callback _lock_door in this step: it writes the relay
\* (or fails to) or sets is_unlocked
CallbackStep(i) ==
    /\ timers[i].st \in {"callback", "flag"}
    /\ timers'[i].st # timers[i].st

\* timer i relocks the door in this step: _lock_door has written the relay
\* and now sets is_unlocked = False
RelockStep(i) == timers[i].st = "flag" /\ timers'[i].st = "done"

\* the unlock_door call that replaced timer i by a newer timer has completed
Superseded(i) == timers[i].st # "unborn" /\ unlock_timer > i

\* C3: once a newer unlock_door call has completed, the callback of the
\* earlier timer never writes the actuator and never sets the door Locked.
C3_StaleTimerIsNoOp ==
    [][\A i \in TimerIds : Superseded(i) => ~CallbackStep(i)]_vars

\* C4: unlock while Unlocked replaces the relock timer: at most one timer is
\* armed at any time, and a timer-driven relock happens only at or after the
\* deadline of the last unlock request.
C4_LastUnlockWins ==
    [][/\ Cardinality({i \in TimerIds : armed(i)}) <= 1
       /\ \A i \in TimerIds :
             (RelockStep(i) /\ unlock_timer # None)
                => now >= timers[unlock_timer].deadline]_vars

\* the episode of the last door request is over: the request has returned
\* and the relock timer it started has ended
EpisodeOver ==
    /\ LoopFree
    /\ episode.fn = "unlock_door"
    /\ episode.ok
    /\ timers[unlock_timer].st = "done"

\* C5: after a successful unlock with no further request, the door is Locked
\* once the relock timer has fired, and over the episode the actuator was
\* written exactly once to the open and exactly once to the closed level
\* (stated for an actuator that never fails).
C5_OneUnlockOneRelock ==
    (~gpio_faulty /\ EpisodeOver)
        => (~is_unlocked /\ relay = "LOW" /\ episode.HIGH = 1 /\ episode.LOW = 1)

\* C6: after force_lock has returned, the callback of the timer it cancelled
\* performs no relock actuation.
C6_ForceLockCancelsTimer ==
    [][(episode.fn = "force_lock" /\ episode.ok /\ call.pc \in {"return", "none"})
          => \A i \in TimerIds :
                ~(timers[i].st = "callback" /\ timers'[i].st = "flag")]_vars

\* C7: when the actuator write fails inside unlock_door or force_lock, the
\* flag is as before the call and a relock timer that was pending before the
\* call is still pending: it has not been cancelled.
C7_FailureLeavesStateUnchanged ==
    (call.pc = "return" /\ ~call.result /\ call.was_armed # None)
        => /\ timers[call.was_armed].st = "waiting" => ~timers[call.was_armed].finished
           /\ timers[call.was_armed].st \in {"waiting", "callback", "flag"}
                 => is_unlocked = call.was_unlocked

\* a door call is between its first and its last statement
CallInFlight == call.fn # "none" /\ call.pc # "return"

\* a timer thread is between the first and the last statement of _lock_door
RelockInFlight == \E i \in TimerIds : timers[i].st \in {"callback", "flag"}

\* C8: the steps of unlock, forceLock and the timer-driven relock never
\* interleave with one another.
C8_TransitionsSerialized == ~(CallInFlight /\ RelockInFlight)

\* task t waits in broadcast_event and every send of its gather has completed
PublishComplete(t) ==
    /\ sent_to[t] # {}
    /\ GatherDone(t)

\* C9: when broadcast_event completes, every client attached at the call whose
\* send did not fail has received the event exactly once, whichever clients'
\* sends failed; a client whose send failed has received nothing.
C9_PublishReachesEveryObserver ==
    \A t \in Tasks :
        PublishComplete(t) =>
            \A c \in sent_to[t] :
                IF c \in failed[t] THEN got[t][c] = 0 ELSE got[t][c] = 1

\* a broadcast to several clients has completed, the send to one client has
\* failed and another client has received the event
C9_Witness ==
    \E t \in Tasks :
        /\ PublishComplete(t)
        /\ failed[t] # {}
        /\ \E c \in sent_to[t] \ failed[t] : got[t][c] = 1

\* C10: once broadcast_event has completed, no client whose send failed in
\* it is in self.clients any more.
C10_FailedObserverDetached ==
    \A t \in Tasks : PublishComplete(t) => failed[t] \cap clients = {}


\* C11: a publish of the stream loop completes although the send to one
\* observer never completes: a 'frame' broadcast that has begun returns, and
\* the loop goes on to its next iteration.
C11_StalledObserverDoesNotStall ==
    (spc[Stream] = "frame_event") ~> (spc[Stream] # "frame_event")

\* C12: an attach that takes the attached set from empty to non-empty starts
\* the stream loop: once every attached observer has received its status and
\* its handler waits for messages, no start is owed to the attached set.
C12_AttachStartsStream ==
    (clients # {} /\ \A c \in clients : hpc[c] = "idle" /\ conn[c] = "open")
        => ~start_owed

\* C13: when the last observer detaches, the stream loop that was running
\* performs no further iteration for that start: a task that was inside its
\* loop at the last detach never begins another iteration.
C13_NoIterationAfterLastDetach ==
    [][\A s \in Starts : halted[s] => ~StreamFrameBegin(s)]_vars

\* C14: when the observer that caused a start has detached before the
\* scheduled stream task first runs, the task does not open the capture
\* device: its first step with no observer attached opens no handle.
C14_LazyStart ==
    [][\A s \in Starts :
          (StreamStart(s) /\ clients = {}) => handles' = handles]_vars

\* C15: a capture device handle that was opened is released exactly once:
\* no handle is released a second time, and no opened handle is dropped by
\* self.camera unreleased (left to be released by nobody).
C15_HandleReleasedOnce ==
    \A h \in HandleIds :
        /\ handles[h].st = "released" => handles[h].releases = 1
        /\ handles[h].st = "open" => camera = h

\* C16: once the last observer has detached, the recognition that was in
\* flight has no further effect: with no observer attached, no automatic
\* unlock request is made to the door controller.
C16_NoUnlockAfterLastDetach ==
    [][(clients = {} /\ ~AutoUnlockCall) => ~AutoUnlockCall']_vars

\* C17: a detach and the stop of the stream leave the door controller as it
\* is: neither the locked/unlocked flag nor the relay nor the pending relock
\* timer changes in a step of remove_client or in the cleanup of the stream
\* task, so the timer of an unlocked door stays armed with no observer.
C17_StopLeavesDoorUntouched ==
    [][((\E c \in Clients : RemoveClient(c)) \/ (\E s \in Starts : StreamExit(s)))
          => UNCHANGED <<is_unlocked, relay, unlock_timer, timers>>]_vars

\* the last observer has detached while the door is unlocked and its relock
\* timer is armed
C17_Witness ==
    /\ clients = {}
    /\ ~running
    /\ is_unlocked
    /\ PendingTimer # None

\* C18: for every frame the stream handles, with i the frame index
\* process_frame gives it (self.frame_count at its entry), the matcher is
\* invoked iff i % recognition_interval = 0; the stream never forces
\* recognition.  The index runs on over stops and restarts.
C18_RecognitionEveryNth ==
    [][\A s \in Starts :
          StreamFrameBegin(s) =>
              /\ frame'[s] = frame_count
              /\ spc'[s] = "recognize" <=> frame'[s] % recognition_interval = 0
              /\ perform_recognition'[s] <=> spc'[s] = "recognize"]_vars

\* after a restart and a change of recognition_interval to 2, the task of
\* the second start has skipped recognition on the frame of index 1
C18_Witness ==
    \E s \in Starts \ {Stream} :
        /\ spc[s] = "encode"
        /\ frame[s] = 1
        /\ ~perform_recognition[s]
        /\ recognition_interval = 2

\* a stream task is handling a frame on which recognition is skipped
Skipping(s) == frame[s] # NoFrame /\ ~perform_recognition[s]

\* C19: while a frame on which recognition is skipped is handled, its
\* detections are empty and its task makes no unlock request: it neither
\* matches a face nor is inside an unlock_door call.
C19_SkippedFrameIsInert ==
    \A s \in Starts :
        Skipping(s) =>
            /\ results[s].faces = 0
            /\ spc[s] \in {"encode", "frame_event"}
            /\ ~(call.fn = "unlock_door" /\ call.task = s)
            /\ spc[s] = "frame_event" => payload[s].results.faces = 0

\* a skipped frame is about to be encoded while the door is locked and
\* automatic unlocking is on
C19_Witness ==
    /\ Skipping(Stream)
    /\ spc[Stream] = "encode"
    /\ auto_unlock
    /\ ~is_unlocked
    /\ clients # {}

\* C20: every frame event carries the image of one frame and the detections
\* process_frame computed for that same frame, also while another stream
\* task handles another frame.
C20_FrameEventPairsImageAndResults ==
    \A s \in Starts :
        spc[s] = "frame_event" =>
            /\ payload[s].image = frame[s]
            /\ payload[s].results.frame = payload[s].image

\* a frame event is being published while the task of another start is
\* handling a later frame
C20_Witness ==
    \E s, r \in Starts :
        /\ s # r
        /\ spc[s] = "frame_event"
        /\ frame[r] # NoFrame
        /\ frame[r] > payload[s].image

\* task s is acting on the detections of the frame it handles
ActingOnDetections(s) ==
    \/ spc[s] \in {"recognize", "face", "call", "unlocked_event", "log"}
    \/ AutoUnlockCall /\ call.task = s

\* C21: the unlock requests and the door_unlocked events that the detections
\* of frame N trigger come before frame N's frame event: while a task acts
\* on the detections of its frame, no frame event of that frame exists, and
\* when the frame is encoded and published, every detection has been acted
\* on and no unlock call of the task is in flight.
C21_UnlockBeforeFrameEvent ==
    \A s \in Starts :
        /\ ActingOnDetections(s) => payload[s] = NoPayload
        /\ spc[s] \in {"encode", "frame_event"} =>
              /\ faces_left[s] = 0
              /\ cur[s] = NoDetection
              /\ ~(AutoUnlockCall /\ call.task = s)

\* the frame event of frame 0 is being published after the detections of
\* frame 0 have unlocked the door
C21_Witness ==
    /\ spc[Stream] = "frame_event"
    /\ payload[Stream].image = 0
    /\ payload[Stream].results.faces > 0
    /\ pending[Stream] # {}
    /\ is_unlocked
    /\ episode.fn = "unlock_door"

\* the events published to client c and not yet written to its connection,
\* as positions of the queue of sends: a lower position is an earlier publish
Unwritten(c) == {i \in DOMAIN ready : ready[i][2] = c}

C23_ReadFailureKeepsLoop ==
    [][\A s \in Starts :
          (AtLoopTop(s) /\ spc'[s] = "off") => ~LoopCondition]_vars

\* C24: a capture device that cannot be opened at the start is retried while
\* observers stay attached: as long as an attached observer is being served,
\* a stream task exists that is about to open the device or is in its loop.
C24_StartFailureRetried ==
    (\E c \in clients : hpc[c] = "idle" /\ conn[c] = "open")
        => \E s \in Starts : spc[s] # "off"

\* C25: a frame whose recognition call fails is handled with empty
\* detections: when the recognition of a frame ends, whatever its outcome,
\* the task keeps the frame and goes on to its faces or to the encoder, from
\* where the frame event is published.
C25_MatcherFailureStillPublishes ==
    [][\A s \in Starts :
          (spc[s] = "recognize" /\ spc'[s] # "recognize") =>
              /\ spc'[s] \in {"face", "encode"}
              /\ frame'[s] = frame[s]]_vars


\* ------------------------------------------------- the quality of the images
\* adjust_quality_based_on_load applied to every load of the grid, for every
\* base quality the profile can hold, with the adaptation on and off.

InitQuality ==
    /\ InitDoor
    /\ now = 0
    /\ gpio_faulty = FALSE
    /\ Attached(1)
    /\ auto_unlock = TRUE
    /\ unlock_confidence = 80
    /\ recognition_interval = 1
    /\ known_face_names = <<"ann", "bob">>
    /\ known_face_encodings = <<1, 2>>
    /\ InitImageIdle
    /\ authorized_users = {"ann"}
    /\ jpeg_quality \in Qualities
    /\ adaptive_quality \in BOOLEAN
    /\ load = NoLoad
    /\ quality = None
    /\ InitStreamOff

NextQuality ==
    \E cpu_percent \in Loads, memory_percent \in Loads :
        AdjustQuality(cpu_percent, memory_percent)

SpecQuality == InitQuality /\ [][NextQuality]_vars

\* the bands of the quality choice: high load first, then elevated load, then
\* low load, else the base
ChooseQuality(cpu, mem, base) ==
    IF cpu > 90 \/ mem > 90 THEN max(30, base - 20)
    ELSE IF cpu > 75 \/ mem > 75 THEN max(40, base - 10)
    ELSE IF cpu < 50 /\ mem < 50 THEN min(85, base + 5)
    ELSE base

\* C26: the quality chosen for a load is the one of the first band that
\* applies: cpu or memory above 90 gives max(30, base - 20); else cpu or
\* memory above 75 gives max(40, base - 10); else cpu and memory both below
\* 50 give min(85, base + 5); otherwise the base. So (95, 20) with base 60
\* gives 40, (30, 30) gives 65, (80, 10) gives 50; with the adaptation
\* disabled the base is returned whatever the load.
C26_QualityBands ==
    quality # None =>
        /\ adaptive_quality => quality = ChooseQuality(load[1], load[2], jpeg_quality)
        /\ ~adaptive_quality => quality = jpeg_quality
        /\ (adaptive_quality /\ jpeg_quality = 60 /\ load = <<95, 20>>) => quality = 40
        /\ (adaptive_quality /\ jpeg_quality = 60 /\ load = <<30, 30>>) => quality = 65
        /\ (adaptive_quality /\ jpeg_quality = 60 /\ load = <<80, 10>>) => quality = 50

\* a load exactly on the upper threshold was sampled with the adaptation on,
\* and a clamp decided the quality
C26_Witness ==
    /\ adaptive_quality
    /\ jpeg_quality = 45
    /\ load = <<90, 20>>
    /\ quality = 40


\* ------------------------------------------------- the performance profile
\* One client sends update_performance_settings requests with every
\* combination of absent, valid and invalid fields, while the stream's quality
\* choice reads the profile.

InitProfileUpdates ==
    /\ InitDoor
    /\ now = 0
    /\ gpio_faulty = FALSE
    /\ Attached(1)
    /\ InitSystem
    /\ InitStreamOff

NextProfileUpdates ==
    \/ \E settings \in Settings : HandleUpdatePerformance(1, settings)
    \/ Respond(1)
    \/ \E cpu_percent \in Loads, memory_percent \in Loads :
          AdjustQuality(cpu_percent, memory_percent)

SpecProfileUpdates == InitProfileUpdates /\ [][NextProfileUpdates]_vars

\* every field the request carries has the value the request gave it
Applied(settings) ==
    /\ settings.recognition_interval.state # Invalid
    /\ settings.jpeg_quality.state # Invalid
    /\ settings.recognition_interval.state = Valid =>
          recognition_interval = settings.recognition_interval.value
    /\ settings.jpeg_quality.state = Valid =>
          jpeg_quality = settings.jpeg_quality.value
    /\ settings.adaptive_quality.state = Valid =>
          adaptive_quality = settings.adaptive_quality.value

\* C27: an update of the performance settings is applied as a whole: after
\* the request either every field it carries has its new value, or, when the
\* request was rejected part-way, the profile is as it was before; a profile
\* with only some of the requested fields changed is never left behind.
C27_ProfileUpdatedAsAWhole ==
    [][\A settings \in Settings :
          HandleUpdatePerformance(1, settings) =>
              \/ Applied(settings)'
              \/ UNCHANGED <<recognition_interval, jpeg_quality, adaptive_quality>>]_vars


\* ----------------------------------------------------------------- shutdown
\* main's finally: system.cleanup(): self.stop_camera_stream();
\* self.door_lock.cleanup().  It runs on the loop thread, between the steps
\* of the tasks; the timer threads run on.
Shutdown ==
    /\ LoopFree
    /\ stop_camera_stream
    /\ call' = EnterCleanup
    /\ episode' = NewEpisode("cleanup")
    /\ UNCHANGED <<taskVars, frame_count, halted, start_owed>>
    /\ UNCHANGED <<hubVars, handlerVars, configVars, dataVars, imageVars, profileVars>>
    /\ UNCHANGED envVars

\* cleanup has returned
CleanedUp == call.fn = "cleanup" /\ call.pc = "done"

\* One client unlocks and locks the door on healthy hardware, the relock
\* timers run, and the server is shut down at any moment.
InitShutdown ==
    /\ InitDoor
    /\ now = 0
    /\ gpio_faulty = FALSE
    /\ Attached(1)
    /\ InitSystem
    /\ InitStreamOff

NextShutdown ==
    \/ TimerThread
    \/ DoorCall
    \/ \E d \in DurationArgs : HandleUnlockDoor(1, d)
    \/ HandleLockDoor(1)
    \/ HandlerRest
    \/ Sends
    \/ Tick
    \/ Shutdown
    \/ CleanupCancel
    \/ CleanupGpio

SpecShutdown == InitShutdown /\ [][NextShutdown]_vars

\* C28: cleanup on shutdown performs a final force lock: once cleanup has
\* returned, whatever the state before it, the pending relock timer is
\* cancelled, the relay is at the closed level and the door reads locked.
C28_CleanupForceLocks ==
    CleanedUp =>
        /\ unlock_timer = None \/ ~armed(unlock_timer)
        /\ relay = "LOW"
        /\ ~is_unlocked


\* C29: whether a recognized face is logged and published as a recognition
\* event does not depend on whether its confidence meets the unlock
\* threshold: every face the matcher recognizes goes on to log_recognition,
\* directly or after the automatic unlock it triggers.
C29_LoggingIndependentOfThreshold ==
    [][\A s \in Starts, m \in MatcherOutputs :
          (StreamDetect(s, m) /\ Matched(m)) => spc'[s] \in {"log", "call"}]_vars


\* a relock is on its way: a timer is armed and not cancelled, or the thread
\* of one is inside _lock_door
RelockOnItsWay ==
    \E i \in TimerIds : armed(i) \/ timers[i].st \in {"callback", "flag"}

\* C30: the door cannot stay unlocked indefinitely: whenever no door call is
\* in progress and the door is unlocked (the flag is set or the relay is at
\* the open level), a relock timer is armed and not cancelled or its callback
\* is running; also after calls in which the actuator write failed.
C30_UnlockedImpliesRelockArmed ==
    (call.fn = "none" /\ (is_unlocked \/ relay = "HIGH")) => RelockOnItsWay


\* no door operation is in progress: the loop thread is in no call of the
\* controller and no timer thread is inside _lock_door
DoorQuiet ==
    /\ call.fn = "none"
    /\ \A i \in TimerIds : timers[i].st \notin {"callback", "flag"}

\* C31: the reported door state agrees with the actuator: whenever no door
\* operation is in progress, is_unlocked is true exactly when the last level
\* successfully written to the relay is the open level.
C31_FlagAgreesWithRelay ==
    DoorQuiet => (is_unlocked <=> relay = "HIGH")


\* task s is inside its while loop, running or suspended in an await
InLoop(s) == spc[s] \notin {"off", "scheduled"}

\* C32: at most one stream loop is active: a task begins an iteration only
\* when every other task inside a loop is an old one that the last detach
\* stopped and that has not iterated since, and is not such an old task
\* itself; and the cleanup of a terminating task releases no device that
\* another task opened.
C32_OneStreamLoop ==
    [][\A s \in Starts :
          /\ StreamFrameBegin(s) =>
                \A r \in Starts \ {s} : InLoop(r) => (halted[r] /\ ~halted[s])
          /\ (StreamExit(s) /\ camera # None) => handles[camera].by = s]_vars


\* the handle_websocket coroutine of client c has ended, or never began
HandlerEnded(c) == hpc[c] \in {"none", "dead"}

\* C33: no observer outlives its connection: whenever the connection handler
\* of a client has terminated, the client is not in the attached set, also
\* when the door_status send inside add_client failed.
C33_NoObserverOutlivesHandler ==
    \A c \in Clients : HandlerEnded(c) => c \notin clients


\* --------------------------------------------------- the door configuration
\* One observer watches the running stream, switches auto_unlock and the
\* threshold with update_door_config and unlocks the door itself; the frames
\* show faces.  The span is shorter than lock_duration: no relock timer fires.
InitConfig ==
    /\ InitDoor
    /\ now = 0
    /\ gpio_faulty = FALSE
    /\ Attached(1)
    /\ auto_unlock \in BOOLEAN
    /\ unlock_confidence = 80
    /\ recognition_interval = 1
    /\ InitProfile
    /\ known_face_names = <<"ann", "bob">>
    /\ known_face_encodings = <<1, 2>>
    /\ InitImageIdle
    /\ authorized_users = {"ann"}
    /\ InitStreamRunning

NextConfig ==
    \/ DoorCancel
    \/ DoorGpio
    \/ UnlockFlag
    \/ UnlockTimer
    \/ StreamTask
    \/ \E config \in DoorConfigs : HandleUpdateDoorConfig(1, config)
    \/ HandleUnlockDoor(1, <<>>)
    \/ HandlerRest
    \/ Sends

SpecConfig == InitConfig /\ [][NextConfig]_vars

\* unlock_door writes the open level to the relay in this step
WritesOpen ==
    /\ call.fn = "unlock_door"
    /\ call.pc = "gpio"
    /\ relay' = "HIGH"
    /\ call'.pc = "flag"

\* C34: while auto_unlock is false no detection causes an unlock: the relay
\* is driven to the open level only inside an unlock_door call made for an
\* explicit request of a client, whatever the detections are.
C34_NoAutoUnlockWhenDisabled ==
    [][(WritesOpen /\ ~auto_unlock) => call.task \in Clients]_vars

\* with auto_unlock off, the stream has recognized an authorized user with
\* enough confidence at a locked door, and goes on to log it with no unlock
C34_Witness ==
    /\ ~auto_unlock
    /\ ~is_unlocked
    /\ relay = "LOW"
    /\ \E s \in Starts :
          /\ spc[s] = "log"
          /\ cur[s].is_authorized
          /\ cur[s].confidence >= unlock_confidence
          /\ ~cur[s].requested


\* ------------------------------------------------ a stream with interval 0
\* One observer watches the running stream, sets recognition_interval to 0,
\* 1 or 2, and may disconnect; no frame shows a face.  The stream task and
\* the sends are scheduled fairly: the event loop runs every task that is
\* ready, and the stream task wakes from its sleep between any two requests.
InitHalt ==
    /\ InitDoor
    /\ now = 0
    /\ gpio_faulty = FALSE
    /\ Attached(1)
    /\ auto_unlock = TRUE
    /\ unlock_confidence = 80
    /\ recognition_interval \in Intervals
    /\ InitProfile
    /\ known_face_names = <<"ann", "bob">>
    /\ known_face_encodings = <<1, 2>>
    /\ InitImageIdle
    /\ authorized_users = {"ann"}
    /\ InitStreamRunning

NextHalt ==
    \/ \E k \in IntervalInputs : HandleUpdatePerformance(1, IntervalOnly(k))
    \/ Respond(1)
    \/ \E s \in Starts : StreamFrameBegin(s)
    \/ \E s \in Starts : StreamFrameRaises(s)
    \/ \E s \in Starts : StreamRecognized(s, 0)
    \/ \E s \in Starts : StreamEncoded(s, TRUE)
    \/ \E s \in Starts : StreamAfterFrame(s)
    \/ \E s \in Starts : StreamExit(s)
    \/ CloseConn(1)
    \/ RemoveClient(1)
    \/ Sends

FairHalt ==
    /\ \A s \in Starts :
          /\ SF_vars(StreamFrameBegin(s))
          /\ WF_vars(StreamFrameRaises(s))
          /\ WF_vars(StreamRecognized(s, 0))
          /\ WF_vars(StreamEncoded(s, TRUE))
          /\ WF_vars(StreamAfterFrame(s))
    /\ \A t \in Tasks, c \in Clients :
          WF_vars(SendWrite(t, c)) /\ WF_vars(SendComplete(t, c))
    /\ WF_vars(Respond(1))
    /\ WF_vars(RemoveClient(1))

SpecHalt == InitHalt /\ [][NextHalt]_vars /\ FairHalt

\* an update_performance_settings request has just been accepted while the
\* stream loop runs and the camera still delivers frames
UpdateAccepted ==
    /\ hpc[1] = "respond"
    /\ hreq[1].type = "update_performance_settings"
    /\ hreq[1].success
    /\ LoopCondition
    /\ frame_count < MaxFrames
    /\ \E s \in Starts : InLoop(s)

\* C35: no accepted configuration halts the stream: after an
\* update_performance_settings request that returned success (for instance
\* recognition_interval = 0), the running loop goes on to publish a frame
\* event for a frame it captures, unless the last observer detaches first.
C35_AcceptedSettingsKeepStreaming ==
    UpdateAccepted ~> (~LoopCondition \/ \E s \in Starts : spc[s] = "frame_event")


\* the door operation in progress is one whose caller publishes a door event
\* when it succeeds: unlock_door and force_lock called from handle_message or
\* process_frame.  _lock_door runs on the timer thread, outside any call
PublishingCall == call.fn \in {"unlock_door", "force_lock"}

\* C36: observers can track the door from events alone: every transition of
\* the door to unlocked or to locked is made by an operation that announces
\* it with a door_unlocked or door_locked event, the timer-driven relock
\* included.
C36_DoorTransitionsAnnounced ==
    [][(is_unlocked' # is_unlocked) =>
          /\ PublishingCall
          /\ call.pc = "flag"]_vars


\* ------------------------------------- the quality over all base qualities
\* adjust_quality_based_on_load for every base quality a JPEG can have
\* (update_performance_settings stores any int) and every load of the grid.
BaseQualities == 0..100

InitQualityRange ==
    /\ InitDoor
    /\ now = 0
    /\ gpio_faulty = FALSE
    /\ Attached(1)
    /\ auto_unlock = TRUE
    /\ unlock_confidence = 80
    /\ recognition_interval = 1
    /\ known_face_names = <<"ann", "bob">>
    /\ known_face_encodings = <<1, 2>>
    /\ InitImageIdle
    /\ authorized_users = {"ann"}
    /\ jpeg_quality \in BaseQualities
    /\ adaptive_quality \in BOOLEAN
    /\ load = NoLoad
    /\ quality = None
    /\ InitStreamOff

SpecQualityRange == InitQualityRange /\ [][NextQuality]_vars

\* the load band of the quality choice: 3 heavy, 2 moderate, 1 normal, 0 light
Band(cpu_percent, memory_percent) ==
    IF cpu_percent > 90 \/ memory_percent > 90 THEN 3
    ELSE IF cpu_percent > 75 \/ memory_percent > 75 THEN 2
    ELSE IF cpu_percent < 50 /\ memory_percent < 50 THEN 0
    ELSE 1

\* C37: quality degrades monotonically with load: for every base quality in
\* 0..100, the quality chosen for a load is never higher than the quality
\* the same profile gets for a load of a lighter band.
C37_QualityMonotonicInLoad ==
    load # NoLoad =>
        \A cpu_percent \in Loads, memory_percent \in Loads :
            Band(cpu_percent, memory_percent) < Band(load[1], load[2]) =>
                quality <= adjust_quality_based_on_load(cpu_percent, memory_percent)

\* ---------------------------------------------------------------------
\* Identity data: add_user, remove_user, set_user_authorization and
\* reset_face_data.  known_face_encodings[i] is the person whose face
\* encoding i was computed from; known_face_names[i] is the name attached to it.

MaxUsers == 3       \* enrolled encodings held at one time

Persons == {1, 2}

\* a JSON array sent as the name: list.append and list.index accept it,
\* set.add and set.discard raise TypeError (unhashable type)
Unhashable == "[]"

UserNames == {"ann", "bob", Unhashable}

Hashable(name) == name # Unhashable

\* list.index(name): position of the first occurrence
index(names, name) ==
    CHOOSE i \in 1..Len(names) :
        /\ names[i] = name
        /\ \A j \in 1..(i - 1) : names[j] # name

\* list.pop(i)
pop(list, i) == SubSeq(list, 1, i - 1) \o SubSeq(list, i + 1, Len(list))

Names == {known_face_names[i] : i \in 1..Len(known_face_names)}

\* how a user operation ends: the reply's success, and the user_added /
\* user_removed / user_authorization_changed / face_data_reset event on success
UserReply(c, type, success) ==
    /\ hreq' = [hreq EXCEPT ![c] = [type |-> type, success |-> success]]
    /\ IF success
       THEN /\ hpc' = [hpc EXCEPT ![c] = "broadcast"]
            /\ Broadcast(c)
       ELSE /\ hpc' = [hpc EXCEPT ![c] = "respond"]
            /\ UNCHANGED <<sent_to, pending, ready>>
    /\ UNCHANGED <<clients, conn, got, failed, configVars, imageVars, profileVars,
                   streamVars>>
    /\ UNCHANGED <<doorVars, timers, call, episode, envVars>>

\* if authorized: self.authorized_users.add(name)
AddsAuthorization(name, authorized) ==
    IF authorized THEN authorized_users \cup {name} ELSE authorized_users

\* add_user: one_face is whether the decoded image holds exactly one face
HandleAddUser(c, name, person, authorized, one_face) ==
    /\ LoopFree
    /\ hpc[c] = "idle"
    /\ conn[c] = "open"
    /\ Len(known_face_names) < MaxUsers
    /\ IF ~one_face
       THEN /\ UNCHANGED dataVars
            /\ UserReply(c, "add_user", FALSE)
       ELSE /\ known_face_encodings' = Append(known_face_encodings, person)
            /\ known_face_names' = Append(known_face_names, name)
            /\ IF authorized /\ ~Hashable(name)
               THEN /\ UNCHANGED authorized_users
                    /\ UserReply(c, "add_user", FALSE)
               ELSE /\ authorized_users' = AddsAuthorization(name, authorized)
                    /\ UserReply(c, "add_user", TRUE)

HandleRemoveUser(c, name) ==
    /\ LoopFree
    /\ hpc[c] = "idle"
    /\ conn[c] = "open"
    /\ IF name \in Names
       THEN /\ known_face_names' = pop(known_face_names, index(known_face_names, name))
            /\ known_face_encodings' =
                  pop(known_face_encodings, index(known_face_names, name))
            /\ IF Hashable(name)
               THEN /\ authorized_users' = authorized_users \ {name}
                    /\ UserReply(c, "remove_user", TRUE)
               ELSE /\ UNCHANGED authorized_users
                    /\ UserReply(c, "remove_user", FALSE)
       ELSE /\ UNCHANGED dataVars
            /\ UserReply(c, "remove_user", FALSE)

HandleSetUserAuthorization(c, name, authorized) ==
    /\ LoopFree
    /\ hpc[c] = "idle"
    /\ conn[c] = "open"
    /\ UNCHANGED <<known_face_names, known_face_encodings>>
    /\ IF name \in Names /\ Hashable(name)
       THEN /\ authorized_users' =
                  IF authorized THEN authorized_users \cup {name}
                  ELSE authorized_users \ {name}
            /\ UserReply(c, "set_user_authorization", TRUE)
       ELSE /\ UNCHANGED authorized_users
            /\ UserReply(c, "set_user_authorization", FALSE)

\* reset_face_data: removed is whether both os.remove calls went through
HandleResetFaceData(c, removed) ==
    /\ LoopFree
    /\ hpc[c] = "idle"
    /\ conn[c] = "open"
    /\ known_face_encodings' = <<>>
    /\ known_face_names' = <<>>
    /\ authorized_users' = {}
    /\ UserReply(c, "reset_face_data", removed)

UserOps == {"add_user", "remove_user", "set_user_authorization", "reset_face_data"}

InitUsers ==
    /\ InitDoor
    /\ now = 0
    /\ gpio_faulty = FALSE
    /\ InitSystem
    /\ Attached(1)
    /\ InitStreamOff

NextUsers ==
    \/ \E name \in UserNames, person \in Persons, authorized \in BOOLEAN,
          one_face \in BOOLEAN : HandleAddUser(1, name, person, authorized, one_face)
    \/ \E name \in UserNames : HandleRemoveUser(1, name)
    \/ \E name \in UserNames, authorized \in BOOLEAN :
          HandleSetUserAuthorization(1, name, authorized)
    \/ \E removed \in BOOLEAN : HandleResetFaceData(1, removed)
    \/ AfterBroadcast(1)
    \/ Respond(1)
    \/ Sends

SpecUsers == InitUsers /\ [][NextUsers]_vars

IdentityDataConsistent ==
    /\ Len(known_face_names) = Len(known_face_encodings)
    /\ authorized_users \subseteq Names

FailedUserOp ==
    \E c \in Clients :
        /\ hpc[c] = "idle"
        /\ hreq'[c].type \in UserOps
        /\ ~hreq'[c].success

\* C38: after any sequence of add_user, remove_user, set_user_authorization
\* and reset_face_data the names and the encodings have the same length and
\* every authorized name is a known name, and an operation that returns
\* failure leaves the names, the encodings and the authorized set unchanged.
C38_IdentityDataConsistent ==
    /\ []IdentityDataConsistent
    /\ [][FailedUserOp => UNCHANGED dataVars]_vars

\* what a detection of enrolled encoding i reports as its authorization
ReportedAuthorized(i) == Detection([best |-> i, dist |-> 20]).is_authorized

Enrolling ==
    \E c \in Clients :
        /\ hpc[c] = "idle"
        /\ hreq'[c] = [type |-> "add_user", success |-> TRUE]

\* C39: enrolling a user never changes the authorization of a face enrolled
\* earlier: whatever name the new enrolment uses, each encoding held before
\* is reported by detections with the authorization it had before.
C39_EnrollingKeepsEarlierAuthorization ==
    [][Enrolling =>
          \A i \in 1..Len(known_face_names) :
              ReportedAuthorized(i)' = ReportedAuthorized(i)]_vars

\* ---------------------------------------------------------------------
\* Where a detection is reported and drawn: the frame camera.read returned
\* goes through process_frame and then through _encode_frame_to_base64.

CaptureWidths == {320, 640}

WidthLimits == {320, 640}

\* the faces of a captured frame: square boxes, in pixels of that frame
Boxes ==
    {[top |-> top, right |-> left + side, bottom |-> top + side, left |-> left] :
        top \in {0, 42, 100}, left \in {0, 42, 100}, side \in {80, 120}}

Captures ==
    {[width |-> width, height |-> (3 * width) \div 4, face |-> face] :
        width \in CaptureWidths, face \in Boxes}

\* cv2.resize(frame, (0, 0), fx=scale, fy=scale) with scale = max_width / width,
\* applied to process_frame's own frame when the frame is wider than max_width
Resized(x) ==
    IF captured.width > max_width THEN (x * max_width) \div captured.width ELSE x

\* cv2.resize(frame, (0, 0), fx=0.25, fy=0.25): where the detector sees x
Small(x) == Resized(x) \div 4

\* process_frame: the location of the face, scaled back up by 4
ProcessFrame ==
    /\ captured # NoCapture
    /\ location = NoBox
    /\ location' = [top |-> Small(captured.face.top) * 4,
                    right |-> Small(captured.face.right) * 4,
                    bottom |-> Small(captured.face.bottom) * 4,
                    left |-> Small(captured.face.left) * 4]
    /\ UNCHANGED <<max_width, captured, image>>
    /\ UNCHANGED <<hubVars, handlerVars, configVars, dataVars, profileVars, streamVars>>
    /\ UNCHANGED <<doorVars, timers, call, episode, envVars>>

\* _encode_frame_to_base64(frame, quality, results) with the frame camera.read
\* returned: draw_face_annotations draws on a copy of it, imencode encodes that
EncodeFrame ==
    /\ location # NoBox
    /\ image = NoImage
    /\ image' = [width |-> captured.width,
                 height |-> captured.height,
                 box |-> [top |-> max(0, location.top),
                          right |-> min(captured.width, location.right),
                          bottom |-> min(captured.height, location.bottom),
                          left |-> max(0, location.left)]]
    /\ UNCHANGED <<max_width, captured, location>>
    /\ UNCHANGED <<hubVars, handlerVars, configVars, dataVars, profileVars, streamVars>>
    /\ UNCHANGED <<doorVars, timers, call, episode, envVars>>

\* the next camera.read
ReadFrame ==
    /\ image # NoImage
    /\ captured' \in Captures
    /\ location' = NoBox
    /\ image' = NoImage
    /\ UNCHANGED max_width
    /\ UNCHANGED <<hubVars, handlerVars, configVars, dataVars, profileVars, streamVars>>
    /\ UNCHANGED <<doorVars, timers, call, episode, envVars>>

InitImage ==
    /\ InitDoor
    /\ now = 0
    /\ gpio_faulty = FALSE
    /\ Attached(1)
    /\ InitProfile
    /\ auto_unlock = TRUE
    /\ unlock_confidence = 80
    /\ recognition_interval = 1
    /\ known_face_names = <<"ann", "bob">>
    /\ known_face_encodings = <<1, 2>>
    /\ authorized_users = {"ann"}
    /\ max_width \in WidthLimits
    /\ captured \in Captures
    /\ location = NoBox
    /\ image = NoImage
    /\ InitStreamOff

NextImage == ProcessFrame \/ EncodeFrame \/ ReadFrame

SpecImage == InitImage /\ [][NextImage]_vars

\* the detector works on a quarter-size frame: a coordinate is reported on a
\* grid of 4 pixels
Grid == 4

At(reported, actual) == reported <= actual /\ actual < reported + Grid

BoxAt(box, face) ==
    /\ At(box.top, face.top)
    /\ At(box.right, face.right)
    /\ At(box.bottom, face.bottom)
    /\ At(box.left, face.left)

\* C40: the bounding box of a detection in a frame event is in the pixel
\* coordinates of the image published in that event: for every capture width
\* and max_width, a face at (top, right, bottom, left) of the captured frame is
\* reported and drawn at that position of the encoded frame, to the detector's
\* grid of 4 pixels.
C40_BoxInImageCoordinates ==
    image # NoImage =>
        /\ BoxAt(location, captured.face)
        /\ BoxAt(image.box, captured.face)

====
